---- MODULE Spec2Model ----
(***************************************************************************)
(* The reconciliation cache of the family archive (hooks/useArchiveStore)  *)
(* together with the repository functions it pushes through (profileRepo,  *)
(* treeRepo, postRepo) and the remote store they talk to.                  *)
(*                                                                         *)
(* Every remote request the client issues is appended to the log `calls`   *)
(* in issue order and stays there with its outcome; the requests whose     *)
(* status is "pending" are the ones in flight.  The remote store answers   *)
(* the pending requests in any order, each either with success (the write  *)
(* is committed) or with an error (nothing is committed).                  *)
(*                                                                         *)
(* The GEDCOM import (hooks/useGedcomImport) feeds the cache through       *)
(* chooseHome; assertAuthenticated, the guard of both import handlers, is  *)
(* also called on its own with every kind of user.                         *)
(***************************************************************************)
EXTENDS Integers, Sequences, FiniteSets, TLC

\* ---------------------------------------------------------------- bounds
MaxMut   == 2      \* store operations (mutate / add / delete / clearAll) per run
MaxLogin == 1      \* logins per run
MaxUpload == 2     \* files offered to the file input per run
MaxVer   == 2      \* content revisions of one entity
BulkN    == 201    \* size of the bulk import offered to setProfiles
MaxN     == 450    \* largest argument of a direct upsertProfiles call

\* ------------------------------------------------------ program constants
CHUNK == 200

\* ------------------------------------------------------------- value sets
NoUser  == "none"
NoError == "none"
NoId    == 0                  \* a selection id that is null
NoToast == ""
Users   == {"u1"}
EditIds == {1, CHUNK + 1}     \* the persons edited, added or deleted one by one
TreeIds == {1}
SelectIds == {1}              \* the person the views select
PostIds == {1}

VARIABLES
  user,             \* the `user` prop of the hook: a user or NoUser
  profiles,         \* useState<Profile[]>
  familyTrees,      \* useState<FamilyTree[]>
  circlePosts,      \* useState<CirclePost[]>
  isLoading,        \* useState(false)
  error,            \* useState<string | null>
  prevProfilesRef,  \* useRef<Profile[]>
  remoteProfiles,   \* table profiles: id -> row
  remoteTrees,      \* table trees, rows in creation order
  remotePosts,      \* table posts, rows in creation order
  calls,            \* log of the remote requests issued, in issue order
  consoleErrors,    \* number of console.error calls made so far
  nMut,             \* store operations applied so far
  nLogin,           \* logins so far
  last,             \* the step taken last
  activeProfileId,  \* useState<string | null>
  selectedTreeId,   \* useState<string | null>
  treeViewId,       \* useState<string | null>
  pendingImport,    \* useGedcomImport: useState<{importedProfiles, tree} | null>
  view,             \* the AppView that setView of the importer drives
  reads,            \* FileReader reads in flight
  toast,            \* the message shown last
  nUpload,          \* files offered to the file input so far
  arg,              \* a function called directly: its arguments
  ret,              \* ... and its outcome
  bucket,           \* Storage bucket 'media': storage path -> the object held
  mediaRows,        \* table media, rows in insertion order
  mediaPeople,      \* table media_people
  uploads,          \* the uploadMedia calls made: where each stands
  apiKey,           \* process.env.GEMINI_API_KEY
  requests,         \* the requests /api/gemini has received: where each stands
  loading,          \* useSession: useState(true)
  restore,          \* useSession: the getSession promise of the mount effect
  splashTimer       \* useSession: the 1200 ms timer is armed

vars == <<user, profiles, familyTrees, circlePosts, isLoading, error,
          prevProfilesRef, remoteProfiles, remoteTrees, remotePosts,
          calls, consoleErrors, nMut, nLogin, last,
          activeProfileId, selectedTreeId, treeViewId,
          pendingImport, view, reads, toast, nUpload, arg, ret,
          bucket, mediaRows, mediaPeople, uploads, apiKey, requests,
          loading, restore, splashTimer>>

collections == <<profiles, familyTrees, circlePosts>>
remote      == <<remoteProfiles, remoteTrees, remotePosts>>
selection   == <<activeProfileId, selectedTreeId, treeViewId>>
importer    == <<pendingImport, view, reads, toast, nUpload>>
harness     == <<arg, ret>>
mediaStore  == <<bucket, mediaRows, mediaPeople>>
api         == <<apiKey, requests>>
session     == <<loading, restore, splashTimer>>
services    == <<mediaStore, uploads, api, session>>

\* ---------------------------------------------------------------- helpers
Min(a, b) == IF a < b THEN a ELSE b

Range(s) == {s[i] : i \in DOMAIN s}

Ids(s) == {s[i].id : i \in DOMAIN s}

\* Array.prototype.slice(a, b) for 0 <= a <= b
slice(s, a, b) == SubSeq(s, a + 1, Min(b, Len(s)))

\* Array.prototype.filter by id
RemoveId(s, id) == SelectSeq(s, LAMBDA x : x.id # id)

Step(op, k, id) == [op |-> op, k |-> k, id |-> id]

\* JSON.stringify of an entity: the serialised field list
JSONstringify(x) == [f \in DOMAIN x |-> <<f, x[f]>>]

\* ------------------------------------------------------------ remote calls
NoErr == [fn |-> "none", chunk |-> 0]

\* a request handed to the supabase client: what was asked (kind, args, the
\* offset `off` of an upsert chunk in args), under which session (auth), by
\* which store operation (mut; 0 for a direct call of the repo function), and
\* what became of it
Call(kind, auth, mut, args, off) ==
  [kind |-> kind, auth |-> auth, mut |-> mut, args |-> args, off |-> off,
   status |-> "pending", err |-> NoErr, cancelled |-> FALSE, stale |-> FALSE]

Pending(k) == k \in DOMAIN calls /\ calls[k].status = "pending"

Settle(cs, k, status, err) == [cs EXCEPT ![k].status = status, ![k].err = err]

\* ChunkOf with the slice one item too long
ChunkOf_Overlap(c) == slice(c.args, c.off, c.off + CHUNK + 1)

\* the chunk an upsert request carries: profiles.slice(i, i + CHUNK)
ChunkOf(c) == slice(c.args, c.off, c.off + CHUNK)

\* teardown marks the requests that are in flight at that moment
MarkStale(cs) ==
  [k \in DOMAIN cs |->
     IF cs[k].status = "pending" THEN [cs[k] EXCEPT !.stale = TRUE] ELSE cs[k]]

\* ------------------------------------------------------------- profileRepo
\* upsertProfiles, one turn of the loop: issue the chunk at offset i, if any
upsertProfiles(cs, ps, i, auth, mut) ==
  IF i < Len(ps) THEN Append(cs, Call("upsert", auth, mut, ps, i)) ELSE cs

\* upsertError naming the ordinal of the chunk instead of its offset
upsertError_Index(i) == [fn |-> "upsertProfiles", chunk |-> i \div CHUNK]

\* the error upsertProfiles throws for the chunk at offset i
upsertError(i) == [fn |-> "upsertProfiles", chunk |-> i]

\* profileToInsert: user_id: p.userId is the owner column the row-level
\* policy checks
profileToInsert(p) ==
  [v |-> p.v, owner |-> p.userId, parent_ids |-> p.parentIds,
   child_ids |-> p.childIds, spouse_ids |-> p.spouseIds]

rowToProfile(id, row) ==
  [id |-> id, userId |-> row.owner, v |-> row.v, parentIds |-> row.parent_ids,
   childIds |-> row.child_ids, spouseIds |-> row.spouse_ids]

\* the policies of table profiles: a session, only rows of its owner are
\* updated, and only rows naming it as owner are written
ProfilesWritable(auth, ps) ==
  /\ auth # NoUser
  /\ \A id \in Ids(ps) \cap DOMAIN remoteProfiles : remoteProfiles[id].owner = auth
  /\ \A p \in Range(ps) : p.userId = auth

UpsertRows(ps) ==
  LET new == Ids(ps)
      row == [id \in new |-> profileToInsert(CHOOSE p \in Range(ps) : p.id = id)]
  IN  [id \in DOMAIN remoteProfiles \cup new |->
         IF id \in new THEN row[id] ELSE remoteProfiles[id]]

\* listProfiles: the session's rows, ordered (by id, standing for the name)
IdSeq == [i \in 1..(MaxN + 1) |-> i]

listProfiles(auth) ==
  LET mine == {id \in DOMAIN remoteProfiles : remoteProfiles[id].owner = auth}
      ids  == SelectSeq(IdSeq, LAMBDA i : i \in mine)
  IN  [i \in DOMAIN ids |-> rowToProfile(ids[i], remoteProfiles[ids[i]])]

\* ---------------------------------------------------------------- treeRepo
NoKey   == ""     \* GEMINI_API_KEY is not set
NoHome  == 0      \* homePersonId '' of the app type
SqlNull == 0 - 1  \* a null column

\* treeToInsert: user_id: t.userId, home_person_id: t.homePersonId || null
treeToInsert(t) ==
  [id |-> t.id, owner |-> t.userId, name |-> t.name,
   home |-> IF t.homePersonId = NoHome THEN SqlNull ELSE t.homePersonId,
   members |-> t.memberIds]

\* rowToTree: homePersonId: row.home_person_id ?? ''
rowToTree(row) ==
  [id |-> row.id, userId |-> row.owner, name |-> row.name,
   homePersonId |-> IF row.home = SqlNull THEN NoHome ELSE row.home,
   memberIds |-> row.members]

Reverse(s) == [i \in DOMAIN s |-> s[Len(s) + 1 - i]]

\* listTrees / listPosts: the session's rows, newest first
listTrees(auth) ==
  LET mine == SelectSeq(remoteTrees, LAMBDA r : r.owner = auth)
  IN  Reverse([i \in DOMAIN mine |-> rowToTree(mine[i])])

\* the patch setFamilyTrees hands to updateTree
treePatch(tree) ==
  [id |-> tree.id, homePersonId |-> tree.homePersonId,
   memberIds |-> tree.memberIds, name |-> tree.name]

\* supabase.from('trees').update(update).eq('id', id): the session's row, if any
UpdateRows(rows, patch, auth) ==
  [i \in DOMAIN rows |->
     IF rows[i].id = patch.id /\ rows[i].owner = auth
     THEN [rows[i] EXCEPT !.home = patch.homePersonId,
                          !.members = patch.memberIds,
                          !.name = patch.name]
     ELSE rows[i]]

\* supabase.from(table).delete().eq('id', id): the session's row, if any
DeleteRows(rows, id, auth) == SelectSeq(rows, LAMBDA r : ~(r.id = id /\ r.owner = auth))

\* ---------------------------------------------------------------- postRepo
\* postToInsert leaves taggedProfileIds out; the row's post_people stands for
\* its rows in the join table
postToInsert(p, auth) == [id |-> p.id, owner |-> auth, v |-> p.v, post_people |-> <<>>]

\* rowToPost: taggedProfileIds is handed in
rowToPost(row, taggedProfileIds) ==
  [id |-> row.id, v |-> row.v, taggedProfileIds |-> taggedProfileIds]

\* the rows createPost hands to supabase.from('post_people').insert
mentions(post) == post.taggedProfileIds

\* the insert into post_people: the rows join the post's row
InsertMentions(rows, post, auth) ==
  [i \in DOMAIN rows |->
     IF rows[i].id = post.id /\ rows[i].owner = auth
     THEN [rows[i] EXCEPT !.post_people = @ \o mentions(post)]
     ELSE rows[i]]

listPosts(auth) ==
  LET mine == SelectSeq(remotePosts, LAMBDA r : r.owner = auth)
  IN  Reverse([i \in DOMAIN mine |-> rowToPost(mine[i], mine[i].post_people)])

\* ------------------------------------------------------------ the hook
\* the media store is empty, no key is configured, useSession is not mounted
InitServices ==
  /\ bucket = <<>> /\ mediaRows = <<>> /\ mediaPeople = {} /\ uploads = <<>>
  /\ apiKey = NoKey /\ requests = <<>>
  /\ loading = TRUE /\ restore = "unmounted" /\ splashTimer = FALSE

Init ==
  /\ InitServices
  /\ user = NoUser
  /\ profiles = <<>> /\ familyTrees = <<>> /\ circlePosts = <<>>
  /\ isLoading = FALSE /\ error = NoError
  /\ prevProfilesRef = <<>>
  /\ remoteProfiles = <<>> /\ remoteTrees = <<>> /\ remotePosts = <<>>
  /\ calls = <<>> /\ consoleErrors = 0
  /\ nMut = 0 /\ nLogin = 0
  /\ last = Step("init", 0, 0)
  /\ activeProfileId = NoId /\ selectedTreeId = NoId /\ treeViewId = NoId
  /\ pendingImport = <<>> /\ view = "SPLASH" /\ reads = {} /\ toast = NoToast /\ nUpload = 0
  /\ arg = <<>> /\ ret = "none"

\* the user prop becomes u: the load effect runs
Login(u) ==
  /\ user = NoUser /\ nLogin < MaxLogin
  /\ user' = u
  /\ isLoading' = TRUE
  /\ error' = NoError
  /\ calls' = Append(calls, Call("load", u, 0, <<>>, 0))
  /\ nLogin' = nLogin + 1
  /\ last' = Step("Login", Len(calls) + 1, 0)
  /\ UNCHANGED <<services, selection, importer, harness, collections, prevProfilesRef, remote, consoleErrors, nMut>>

\* the user prop becomes null: the effect's cleanup sets `cancelled`, then
\* the effect clears the cache
Logout ==
  /\ user # NoUser
  /\ user' = NoUser
  /\ profiles' = <<>> /\ familyTrees' = <<>> /\ circlePosts' = <<>>
  /\ calls' = [k \in DOMAIN calls |->
                 IF calls[k].status = "pending"
                 THEN [calls[k] EXCEPT !.stale = TRUE,
                                       !.cancelled = (@ \/ calls[k].kind = "load")]
                 ELSE calls[k]]
  /\ activeProfileId' = NoId /\ selectedTreeId' = NoId /\ treeViewId' = NoId
  /\ last' = Step("Logout", 0, 0)
  /\ UNCHANGED <<services, importer, harness, isLoading, error, prevProfilesRef, remote, consoleErrors, nMut, nLogin>>

\* LoadResolve handing the loaded profiles to the diffing setProfiles
LoadResolve_ThroughSetProfiles(k) ==
  /\ Pending(k) /\ calls[k].kind = "load"
  /\ IF calls[k].cancelled
     THEN /\ calls' = Settle(calls, k, "ok", NoErr)
          /\ UNCHANGED <<collections, isLoading>>
     ELSE /\ familyTrees' = listTrees(calls[k].auth)
          /\ profiles' = listProfiles(calls[k].auth)
          /\ circlePosts' = listPosts(calls[k].auth)
          /\ isLoading' = FALSE
          /\ LET new == SelectSeq(listProfiles(calls[k].auth),
                                  LAMBDA q : q \notin Range(profiles))
             IN  calls' = IF Len(new) > 0
                          THEN Append(Settle(calls, k, "ok", NoErr),
                                      Call("upsert", user, 0, new, 0))
                          ELSE Settle(calls, k, "ok", NoErr)
  /\ last' = Step("LoadResolve", k, 0)
  /\ UNCHANGED <<services, selection, importer, harness, user, error, prevProfilesRef, remote,
                 consoleErrors, nMut, nLogin>>

\* Promise.all([listTrees(), listProfiles(), listPosts()]) resolves
LoadResolve(k) ==
  /\ Pending(k) /\ calls[k].kind = "load"
  /\ calls' = Settle(calls, k, "ok", NoErr)
  /\ IF calls[k].cancelled
     THEN UNCHANGED <<collections, isLoading>>
     ELSE /\ familyTrees' = listTrees(calls[k].auth)
          /\ profiles' = listProfiles(calls[k].auth)
          /\ circlePosts' = listPosts(calls[k].auth)
          /\ isLoading' = FALSE
  /\ last' = Step("LoadResolve", k, 0)
  /\ UNCHANGED <<services, selection, importer, harness, user, error, prevProfilesRef, remote, consoleErrors, nMut, nLogin>>

\* ... or rejects
LoadReject(k) ==
  /\ Pending(k) /\ calls[k].kind = "load"
  /\ calls' = Settle(calls, k, "failed", [fn |-> "load", chunk |-> 0])
  /\ IF calls[k].cancelled
     THEN UNCHANGED <<error, consoleErrors, isLoading>>
     ELSE /\ error' = "load"
          /\ consoleErrors' = consoleErrors + 1
          /\ isLoading' = FALSE
  /\ last' = Step("LoadReject", k, 0)
  /\ UNCHANGED <<services, selection, importer, harness, user, collections, prevProfilesRef, remote, nMut, nLogin>>

\* the arrays the callers of setProfiles produce from prev
\* a person without relatives, and n of them
Person(id) == [id |-> id, userId |-> "u1", v |-> 1, parentIds |-> {}, childIds |-> {}, spouseIds |-> {}]

MkProfiles(n) == [i \in 1..n |-> Person(i)]

ProfileUpdaters(prev) ==
  LET have == Ids(prev) IN
    {prev}
    \cup {[prev EXCEPT ![i].v = @ + 1] :
            i \in {j \in DOMAIN prev : prev[j].id \in EditIds /\ prev[j].v < MaxVer}}
    \cup {prev \o SelectSeq(<<Person(1), Person(CHUNK + 1)>>,
                             LAMBDA p : p.id \notin have)}
    \cup {RemoveId(prev, e) : e \in EditIds \cap have}
    \cup {<<>>}

\* toUpsert pushing the whole array as soon as anything in it changed
toUpsert_WholeArray(prev, next) ==
  IF \E i \in DOMAIN next : next[i] \notin Range(prev) THEN next ELSE <<>>

\* toUpsert diffing against the rows the remote store holds
toUpsert_AgainstSnapshot(prev, next) ==
  SelectSeq(next, LAMBDA p :
    \/ p.id \notin DOMAIN remoteProfiles
    \/ rowToProfile(p.id, remoteProfiles[p.id]) # p)

\* the filter of setProfiles: new, or not the same JSON as before
toUpsert(prev, next) ==
  LET prevById == [id \in Ids(prev) |->
                     LET i == CHOOSE i \in DOMAIN prev :
                                /\ prev[i].id = id
                                /\ \A j \in DOMAIN prev : j > i => prev[j].id # id
                     IN  prev[i]]
  IN  SelectSeq(next, LAMBDA p :
        \/ p.id \notin DOMAIN prevById
        \/ JSONstringify(prevById[p.id]) # JSONstringify(p))

\* setProfiles deleting remotely what the new array leaves out
setProfiles_DeleteMissing(next) ==
  /\ nMut < MaxMut
  /\ nMut' = nMut + 1
  /\ profiles' = next
  /\ LET ups  == toUpsert(profiles, next)
         gone == SelectSeq(profiles, LAMBDA q : q.id \notin Ids(next))
     IN  calls' = (IF Len(ups) > 0
                   THEN upsertProfiles(calls, ups, 0, user, nMut + 1)
                   ELSE calls)
                  \o [i \in DOMAIN gone |->
                        Call("deleteProfile", user, nMut + 1, <<[id |-> gone[i].id]>>, 0)]
  /\ prevProfilesRef' = next
  /\ last' = Step("setProfiles", 0, 0)
  /\ UNCHANGED <<services, selection, importer, harness, user, familyTrees, circlePosts, isLoading,
                 error, remote, consoleErrors, nLogin>>

setProfiles(next) ==
  /\ nMut < MaxMut
  /\ nMut' = nMut + 1
  /\ profiles' = next
  /\ LET ups == toUpsert(profiles, next)
     IN  calls' = IF Len(ups) > 0
                  THEN upsertProfiles(calls, ups, 0, user, nMut + 1)
                  ELSE calls
  /\ prevProfilesRef' = next
  /\ last' = Step("setProfiles", 0, 0)
  /\ UNCHANGED <<services, selection, importer, harness, user, familyTrees, circlePosts, isLoading, error, remote,
                 consoleErrors, nLogin>>

\* the upsert of a chunk returns without error: the loop goes on
UpsertChunkOk(k) ==
  /\ Pending(k) /\ calls[k].kind = "upsert"
  /\ ProfilesWritable(calls[k].auth, ChunkOf(calls[k]))
  /\ remoteProfiles' = UpsertRows(ChunkOf(calls[k]))
  /\ calls' = upsertProfiles(Settle(calls, k, "ok", NoErr), calls[k].args,
                             calls[k].off + CHUNK, user, calls[k].mut)
  /\ last' = Step("UpsertChunkOk", k, 0)
  /\ UNCHANGED <<services, selection, importer, harness, user, collections, isLoading, error, prevProfilesRef,
                 remoteTrees, remotePosts, consoleErrors, nMut, nLogin>>

\* UpsertChunkFail with a loop that goes on to the next chunk after an error
UpsertChunkFail_Continue(k) ==
  /\ Pending(k) /\ calls[k].kind = "upsert"
  /\ calls' = upsertProfiles(Settle(calls, k, "failed", upsertError(calls[k].off)),
                             calls[k].args, calls[k].off + CHUNK, user, calls[k].mut)
  /\ consoleErrors' = IF calls[k].mut > 0 THEN consoleErrors + 1 ELSE consoleErrors
  /\ last' = Step("UpsertChunkFail", k, 0)
  /\ UNCHANGED <<services, selection, importer, harness, user, collections, isLoading, error, prevProfilesRef, remote,
                 nMut, nLogin>>

\* the upsert of a chunk returns an error: upsertProfiles throws; the store's
\* catch logs it
UpsertChunkFail(k) ==
  /\ Pending(k) /\ calls[k].kind = "upsert"
  /\ calls' = Settle(calls, k, "failed", upsertError(calls[k].off))
  /\ consoleErrors' = IF calls[k].mut > 0 THEN consoleErrors + 1 ELSE consoleErrors
  /\ last' = Step("UpsertChunkFail", k, 0)
  /\ UNCHANGED <<services, selection, importer, harness, user, collections, isLoading, error, prevProfilesRef, remote,
                 nMut, nLogin>>

\* the arrays the callers of setFamilyTrees produce from prev
TreeUpdaters(prev) ==
  {prev}
  \cup {<<[id |-> t, userId |-> "u1", name |-> "a", homePersonId |-> h, memberIds |-> <<h>>]>> \o prev :
          t \in TreeIds \ Ids(prev), h \in {CHUNK + 1}}
  \cup {[prev EXCEPT ![i].name = IF @ = "a" THEN "b" ELSE "a"] : i \in DOMAIN prev}
  \cup {<<>>}

\* the forEach sending an update for every tree that was there
treeCalls_UpdateAlways(prev, next, auth, mut) ==
  LET push(tree) ==
        IF tree.id \notin Ids(prev)
        THEN <<Call("createTree", auth, mut, <<tree>>, 0)>>
        ELSE <<Call("updateTree", auth, mut, <<treePatch(tree)>>, 0)>>
      RECURSIVE each(_)
      each(i) == IF i > Len(next) THEN <<>> ELSE push(next[i]) \o each(i + 1)
  IN  each(1)

\* the forEach of setFamilyTrees: a create for a new id, an update for a
\* changed tree, in the order of next
treeCalls(prev, next, auth, mut) ==
  LET prevIds == Ids(prev)
      push(tree) ==
        IF tree.id \notin prevIds
        THEN <<Call("createTree", auth, mut, <<tree>>, 0)>>
        ELSE LET old == prev[CHOOSE i \in DOMAIN prev :
                               /\ prev[i].id = tree.id
                               /\ \A j \in DOMAIN prev : j < i => prev[j].id # tree.id]
             IN  IF JSONstringify(old) # JSONstringify(tree)
                 THEN <<Call("updateTree", auth, mut, <<treePatch(tree)>>, 0)>>
                 ELSE <<>>
      RECURSIVE each(_)
      each(i) == IF i > Len(next) THEN <<>> ELSE push(next[i]) \o each(i + 1)
  IN  each(1)

setFamilyTrees(next) ==
  /\ nMut < MaxMut
  /\ nMut' = nMut + 1
  /\ familyTrees' = next
  /\ calls' = calls \o treeCalls(familyTrees, next, user, nMut + 1)
  /\ last' = Step("setFamilyTrees", 0, 0)
  /\ UNCHANGED <<services, selection, importer, harness, user, profiles, circlePosts, isLoading, error, prevProfilesRef,
                 remote, consoleErrors, nLogin>>

CreateTreeOk(k) ==
  /\ Pending(k) /\ calls[k].kind = "createTree"
  /\ calls[k].auth # NoUser
  /\ calls[k].args[1].userId = calls[k].auth
  /\ calls[k].args[1].id \notin Ids(remoteTrees)
  /\ remoteTrees' = Append(remoteTrees, treeToInsert(calls[k].args[1]))
  /\ calls' = Settle(calls, k, "ok", NoErr)
  /\ last' = Step("CreateTreeOk", k, 0)
  /\ UNCHANGED <<services, selection, importer, harness, user, collections, isLoading, error, prevProfilesRef,
                 remoteProfiles, remotePosts, consoleErrors, nMut, nLogin>>

UpdateTreeOk(k) ==
  /\ Pending(k) /\ calls[k].kind = "updateTree"
  /\ calls[k].auth # NoUser
  /\ remoteTrees' = UpdateRows(remoteTrees, calls[k].args[1], calls[k].auth)
  /\ calls' = Settle(calls, k, "ok", NoErr)
  /\ last' = Step("UpdateTreeOk", k, 0)
  /\ UNCHANGED <<services, selection, importer, harness, user, collections, isLoading, error, prevProfilesRef,
                 remoteProfiles, remotePosts, consoleErrors, nMut, nLogin>>

\* PushFail taking the tree whose push failed out of memory
PushFail_Rollback(k) ==
  /\ Pending(k)
  /\ calls[k].kind \in {"createTree", "updateTree", "deletePost", "deleteProfile"}
  /\ calls' = Settle(calls, k, "failed", [fn |-> calls[k].kind, chunk |-> 0])
  /\ consoleErrors' = consoleErrors + 1
  /\ familyTrees' = IF calls[k].kind \in {"createTree", "updateTree"}
                     THEN RemoveId(familyTrees, calls[k].args[1].id)
                     ELSE familyTrees
  /\ last' = Step("PushFail", k, 0)
  /\ UNCHANGED <<services, selection, importer, harness, user, profiles, circlePosts, isLoading,
                 error, prevProfilesRef, remote, nMut, nLogin>>

\* createTree / updateTree / deletePost / deleteProfile rejects: the catch logs it
PushFail(k) ==
  /\ Pending(k)
  /\ calls[k].kind \in {"createTree", "updateTree", "deletePost", "deleteProfile"}
  /\ calls' = Settle(calls, k, "failed", [fn |-> calls[k].kind, chunk |-> 0])
  /\ consoleErrors' = consoleErrors + 1
  /\ last' = Step("PushFail", k, 0)
  /\ UNCHANGED <<services, selection, importer, harness, user, collections, isLoading, error, prevProfilesRef, remote,
                 nMut, nLogin>>

\* ------------------------------------------------------------ circle posts
PostPatches == {[v |-> MaxVer]}

Posts == [id : PostIds, v : 1..MaxVer, taggedProfileIds : {<<>>, <<1>>}]

addCirclePost(post) ==
  /\ nMut < MaxMut
  /\ nMut' = nMut + 1
  /\ circlePosts' = <<post>> \o circlePosts
  /\ calls' = Append(calls, Call("createPost", user, nMut + 1, <<post>>, 0))
  /\ last' = Step("addCirclePost", Len(calls) + 1, post.id)
  /\ UNCHANGED <<services, selection, importer, harness, user, profiles, familyTrees, isLoading, error, prevProfilesRef,
                 remote, consoleErrors, nLogin>>

CreatePostOk(k) ==
  /\ Pending(k) /\ calls[k].kind = "createPost"
  /\ calls[k].auth # NoUser
  /\ calls[k].args[1].id \notin Ids(remotePosts)
  /\ remotePosts' = Append(remotePosts, postToInsert(calls[k].args[1], calls[k].auth))
  /\ calls' = IF Len(calls[k].args[1].taggedProfileIds) > 0
               THEN Append(Settle(calls, k, "ok", NoErr),
                           Call("mentions", calls[k].auth, calls[k].mut, calls[k].args, 0))
               ELSE Settle(calls, k, "ok", NoErr)
  /\ last' = Step("CreatePostOk", k, calls[k].args[1].id)
  /\ UNCHANGED <<services, selection, importer, harness, user, collections, isLoading, error, prevProfilesRef,
                 remoteProfiles, remoteTrees, consoleErrors, nMut, nLogin>>

\* the insert into post_people succeeds: createPost resolves
MentionsOk(k) ==
  /\ Pending(k) /\ calls[k].kind = "mentions"
  /\ calls[k].auth # NoUser
  /\ \E i \in DOMAIN remotePosts :
       remotePosts[i].id = calls[k].args[1].id /\ remotePosts[i].owner = calls[k].auth
  /\ remotePosts' = InsertMentions(remotePosts, calls[k].args[1], calls[k].auth)
  /\ calls' = Settle(calls, k, "ok", NoErr)
  /\ last' = Step("MentionsOk", k, calls[k].args[1].id)
  /\ UNCHANGED <<services, selection, importer, harness, user, collections, isLoading, error,
                 prevProfilesRef, remoteProfiles, remoteTrees, consoleErrors, nMut, nLogin>>

\* MentionsFail with createPost rejecting: the store's catch takes the post out
MentionsFail_Rethrow(k) ==
  /\ Pending(k) /\ calls[k].kind = "mentions"
  /\ calls' = Settle(calls, k, "failed", [fn |-> "mentions", chunk |-> 0])
  /\ consoleErrors' = consoleErrors + 2
  /\ circlePosts' = RemoveId(circlePosts, calls[k].args[1].id)
  /\ last' = Step("MentionsFail", k, calls[k].args[1].id)
  /\ UNCHANGED <<services, selection, importer, harness, user, profiles, familyTrees, isLoading,
                 error, prevProfilesRef, remote, nMut, nLogin>>

\* the insert into post_people returns an error: createPost logs it and
\* resolves all the same
MentionsFail(k) ==
  /\ Pending(k) /\ calls[k].kind = "mentions"
  /\ calls' = Settle(calls, k, "failed", [fn |-> "mentions", chunk |-> 0])
  /\ consoleErrors' = consoleErrors + 1
  /\ last' = Step("MentionsFail", k, calls[k].args[1].id)
  /\ UNCHANGED <<services, selection, importer, harness, user, collections, isLoading, error,
                 prevProfilesRef, remote, nMut, nLogin>>

\* CreatePostFail without the compensating removal
CreatePostFail_NoRollback(k) ==
  /\ Pending(k) /\ calls[k].kind = "createPost"
  /\ calls' = Settle(calls, k, "failed", [fn |-> "createPost", chunk |-> 0])
  /\ consoleErrors' = consoleErrors + 1
  /\ last' = Step("CreatePostFail", k, calls[k].args[1].id)
  /\ UNCHANGED <<services, selection, importer, harness, user, collections, isLoading, error, prevProfilesRef,
                 remote, nMut, nLogin>>

\* createPost rejects: the catch logs it and takes the post out again
CreatePostFail(k) ==
  /\ Pending(k) /\ calls[k].kind = "createPost"
  /\ calls' = Settle(calls, k, "failed", [fn |-> "createPost", chunk |-> 0])
  /\ consoleErrors' = consoleErrors + 1
  /\ circlePosts' = RemoveId(circlePosts, calls[k].args[1].id)
  /\ last' = Step("CreatePostFail", k, calls[k].args[1].id)
  /\ UNCHANGED <<services, selection, importer, harness, user, profiles, familyTrees, isLoading, error, prevProfilesRef,
                 remote, nMut, nLogin>>

deleteCirclePost(id) ==
  /\ nMut < MaxMut
  /\ nMut' = nMut + 1
  /\ circlePosts' = RemoveId(circlePosts, id)
  /\ calls' = Append(calls, Call("deletePost", user, nMut + 1, <<[id |-> id]>>, 0))
  /\ last' = Step("deleteCirclePost", Len(calls) + 1, id)
  /\ UNCHANGED <<services, selection, importer, harness, user, profiles, familyTrees, isLoading, error, prevProfilesRef,
                 remote, consoleErrors, nLogin>>

DeletePostOk(k) ==
  /\ Pending(k) /\ calls[k].kind = "deletePost"
  /\ calls[k].auth # NoUser
  /\ remotePosts' = DeleteRows(remotePosts, calls[k].args[1].id, calls[k].auth)
  /\ calls' = Settle(calls, k, "ok", NoErr)
  /\ last' = Step("DeletePostOk", k, calls[k].args[1].id)
  /\ UNCHANGED <<services, selection, importer, harness, user, collections, isLoading, error, prevProfilesRef,
                 remoteProfiles, remoteTrees, consoleErrors, nMut, nLogin>>

\* updateCirclePost: the patch goes into memory only
updateCirclePost(id, patch) ==
  /\ nMut < MaxMut
  /\ nMut' = nMut + 1
  /\ circlePosts' = [i \in DOMAIN circlePosts |->
                       IF circlePosts[i].id = id
                       THEN [f \in DOMAIN circlePosts[i] |->
                               IF f \in DOMAIN patch THEN patch[f] ELSE circlePosts[i][f]]
                       ELSE circlePosts[i]]
  /\ last' = Step("updateCirclePost", 0, id)
  /\ UNCHANGED <<services, selection, importer, harness, user, profiles, familyTrees, isLoading,
                 error, prevProfilesRef, remote, calls, consoleErrors, nLogin>>

\* --------------------------------------------------- clearAll and deletes
\* clearAll deleting the rows of the persons it drops
clearAll_DeleteRemote ==
  /\ nMut < MaxMut
  /\ nMut' = nMut + 1
  /\ profiles' = <<>> /\ familyTrees' = <<>> /\ circlePosts' = <<>>
  /\ activeProfileId' = NoId /\ selectedTreeId' = NoId /\ treeViewId' = NoId
  /\ prevProfilesRef' = <<>>
  /\ calls' = MarkStale(calls)
                \o [i \in DOMAIN profiles |->
                      Call("deleteProfile", user, nMut + 1, <<[id |-> profiles[i].id]>>, 0)]
  /\ last' = Step("clearAll", 0, 0)
  /\ UNCHANGED <<services, importer, harness, user, isLoading, error, remote, consoleErrors, nLogin>>

\* clearAll: the cache is emptied, the store is left alone
clearAll ==
  /\ nMut < MaxMut
  /\ nMut' = nMut + 1
  /\ profiles' = <<>> /\ familyTrees' = <<>> /\ circlePosts' = <<>>
  /\ activeProfileId' = NoId /\ selectedTreeId' = NoId /\ treeViewId' = NoId
  /\ prevProfilesRef' = <<>>
  /\ calls' = MarkStale(calls)
  /\ last' = Step("clearAll", 0, 0)
  /\ UNCHANGED <<services, importer, harness, user, isLoading, error, remote, consoleErrors, nLogin>>

deleteProfileById(profileId) ==
  /\ nMut < MaxMut
  /\ nMut' = nMut + 1
  /\ calls' = Append(calls, Call("deleteProfile", user, nMut + 1, <<[id |-> profileId]>>, 0))
  /\ last' = Step("deleteProfileById", Len(calls) + 1, profileId)
  /\ UNCHANGED <<services, selection, importer, harness, user, collections, isLoading, error, prevProfilesRef, remote,
                 consoleErrors, nLogin>>

DeleteProfileOk(k) ==
  /\ Pending(k) /\ calls[k].kind = "deleteProfile"
  /\ calls[k].auth # NoUser
  /\ LET id == calls[k].args[1].id
         gone == {i \in DOMAIN remoteProfiles :
                    i = id /\ remoteProfiles[i].owner = calls[k].auth}
     IN  remoteProfiles' = [i \in DOMAIN remoteProfiles \ gone |-> remoteProfiles[i]]
  /\ calls' = Settle(calls, k, "ok", NoErr)
  /\ last' = Step("DeleteProfileOk", k, calls[k].args[1].id)
  /\ UNCHANGED <<services, selection, importer, harness, user, collections, isLoading, error, prevProfilesRef,
                 remoteTrees, remotePosts, consoleErrors, nMut, nLogin>>

\* ---------------------------------------------------------- selection ids
\* the useState setters the hook hands out
setActiveProfileId(id) ==
  /\ nMut < MaxMut
  /\ nMut' = nMut + 1
  /\ activeProfileId' = id
  /\ last' = Step("setActiveProfileId", 0, id)
  /\ UNCHANGED <<services, selectedTreeId, treeViewId, importer, harness, user, collections,
                 isLoading, error, prevProfilesRef, remote, calls, consoleErrors, nLogin>>

setSelectedTreeId(id) ==
  /\ nMut < MaxMut
  /\ nMut' = nMut + 1
  /\ selectedTreeId' = id
  /\ last' = Step("setSelectedTreeId", 0, id)
  /\ UNCHANGED <<services, activeProfileId, treeViewId, importer, harness, user, collections,
                 isLoading, error, prevProfilesRef, remote, calls, consoleErrors, nLogin>>

setTreeViewId(id) ==
  /\ nMut < MaxMut
  /\ nMut' = nMut + 1
  /\ treeViewId' = id
  /\ last' = Step("setTreeViewId", 0, id)
  /\ UNCHANGED <<services, activeProfileId, selectedTreeId, importer, harness, user, collections,
                 isLoading, error, prevProfilesRef, remote, calls, consoleErrors, nLogin>>

\* ------------------------------------------------------ assertAuthenticated
\* the values of `user`: null, undefined, or an object with an id
Null      == [kind |-> "null", id |-> ""]
Undefined == [kind |-> "undefined", id |-> ""]
UserObj(id) == [kind |-> "object", id |-> id]

\* the `user` prop holding an object after sign-out
UserProp_StaleObject(u) == UserObj(u)

\* the `user` prop of the hooks as a value
UserProp(u) == IF u = NoUser THEN Null ELSE UserObj(u)

\* the optional context argument: <<>> when left out
NoContext == <<>>

\* new AuthenticationError(context)
AuthenticationError(context) ==
  LET where == IF context # NoContext /\ context[1] # ""
               THEN " (" \o context[1] \o ")" ELSE ""
  IN  [throws |-> TRUE, name |-> "AuthenticationError", code |-> "NOT_AUTHENTICATED",
       message |-> "You must be signed in to perform this action" \o where \o "."]

Returns == [throws |-> FALSE, name |-> "", code |-> "", message |-> ""]

\* assertAuthenticated answering for every user that is not an object
assertAuthenticated_TypeOnly(u, context) ==
  IF u.kind # "object" THEN AuthenticationError(context) ELSE Returns

\* if (!user || !user.id) throw new AuthenticationError(context)
assertAuthenticated(u, context) ==
  IF u.kind \in {"null", "undefined"} \/ u.id = ""
  THEN AuthenticationError(context)
  ELSE Returns

\* ------------------------------------------------------------ GEDCOM import
\* the files offered to the file input: none chosen, a text without
\* individuals, and two texts that share an individual
NoFile == "none"
Files  == {NoFile, "empty", "fam1", "fam2"}

ImportTreeIds == 2..(MaxUpload + 1)

Relative(id, parents, children, spouses) ==
  [id |-> id, userId |-> "u1", v |-> 1, parentIds |-> parents, childIds |-> children, spouseIds |-> spouses]

\* the maxGenerations handleGedcomUpload passes to parseGedcom
GENERATIONS == 4

\* the records of a text as the graph builder groups them: the ids of the
\* Individual records in record order, and the Family records (spouse pair,
\* child list); NoId stands for an absent spouse
Family(husb, wife, chil) == [husb |-> husb, wife |-> wife, chil |-> chil]

Records(indis, fams) == [indis |-> indis, fams |-> fams]

\* the texts of the files: 1 parent of 2, 2 spouse of 3; 2 parent of 4 in a
\* family whose wife 5 has no Individual record
Graph(text) ==
  IF text = "fam1"
  THEN Records(<<1, 2, 3>>, <<Family(1, NoId, {2}), Family(2, 3, {})>>)
  ELSE IF text = "fam2"
  THEN Records(<<2, 4>>, <<Family(2, 5, {4})>>)
  ELSE Records(<<>>, <<>>)

Individuals(g) == Range(g.indis)

Pair(f) == {f.husb, f.wife}

\* the family linkage of individual i; an end without an Individual record
\* is left out
parentsOf(g, i) ==
  (UNION {Pair(f) : f \in {x \in Range(g.fams) : i \in x.chil}}) \cap Individuals(g)

\* the children of the families whose husband is i
childrenOf_HusbandOnly(g, i) ==
  (UNION {f.chil : f \in {x \in Range(g.fams) : i = x.husb}}) \cap Individuals(g)

childrenOf(g, i) ==
  (UNION {f.chil : f \in {x \in Range(g.fams) : i \in Pair(x)}}) \cap Individuals(g)

spousesOf(g, i) ==
  ((UNION {Pair(f) : f \in {x \in Range(g.fams) : i \in Pair(x)}}) \ {i}) \cap Individuals(g)

\* a visited individual as a Person, tagged with the owner
toPerson(g, i, ownerId) ==
  [Relative(i, parentsOf(g, i), childrenOf(g, i), spousesOf(g, i)) EXCEPT !.userId = ownerId]

RECURSIVE Sorted(_)
Sorted(S) ==
  IF S = {} THEN <<>>
  ELSE LET m == CHOOSE x \in S : \A y \in S : x <= y
       IN  <<m>> \o Sorted(S \ {m})

At(S, gen) == [k \in DOMAIN Sorted(S) |-> [id |-> Sorted(S)[k], gen |-> gen]]

\* every edge adding one to the generation counter
neighbours_SpouseCounts(g, h) ==
  At(parentsOf(g, h.id), h.gen + 1) \o At(childrenOf(g, h.id), h.gen + 1)
    \o At(spousesOf(g, h.id), h.gen + 1)

\* the edges out of a visited individual: a parent/child edge adds one to the
\* generation counter, a spouse edge does not
neighbours(g, h) ==
  At(parentsOf(g, h.id), h.gen + 1) \o At(childrenOf(g, h.id), h.gen + 1)
    \o At(spousesOf(g, h.id), h.gen)

\* an individual is taken once (membership in `seen`) and only within the
\* generation bound
RECURSIVE enqueue(_, _, _)
enqueue(cand, maxGenerations, st) ==
  IF cand = <<>> THEN st
  ELSE LET c == Head(cand)
       IN  enqueue(Tail(cand), maxGenerations,
                   IF c.gen <= maxGenerations /\ c.id \notin Range(st.seen)
                   THEN [queue |-> Append(st.queue, c), seen |-> Append(st.seen, c.id)]
                   ELSE st)

\* the breadth-first expansion: the ids in the order they are visited
RECURSIVE bfs(_, _, _)
bfs(g, maxGenerations, st) ==
  IF st.queue = <<>> THEN st.seen
  ELSE bfs(g, maxGenerations,
           enqueue(neighbours(g, Head(st.queue)), maxGenerations,
                   [st EXCEPT !.queue = Tail(st.queue)]))

\* the traversal from the first Individual record
visit(g, maxGenerations) ==
  bfs(g, maxGenerations, [queue |-> <<[id |-> g.indis[1], gen |-> 0]>>,
                          seen  |-> <<g.indis[1]>>])

\* import(text, ownerId, maxGenerations): the visited individuals as Persons
\* and a fresh tree (id treeId) of all of them, without a home; ParseError on
\* a text without Individual records
importEngine(g, ownerId, maxGenerations, treeId, name) ==
  IF g.indis = <<>>
  THEN [throws |-> TRUE, importedProfiles |-> <<>>, tree |-> <<>>]
  ELSE LET ids == visit(g, maxGenerations)
       IN  [throws |-> FALSE,
            importedProfiles |-> [k \in DOMAIN ids |-> toPerson(g, ids[k], ownerId)],
            tree |-> <<[id |-> treeId, userId |-> ownerId, name |-> name,
                        homePersonId |-> NoHome,
                        memberIds |-> ids]>>]

\* parseGedcom(text, user.id, 4)
parseGedcom(text, ownerId, treeId) ==
  importEngine(Graph(text), ownerId, GENERATIONS, treeId, text)

\* the id of the tree a parse creates: the first one no tree has yet
UsedTreeIds ==
  Ids(familyTrees) \cup Ids(remoteTrees)
    \cup {c.args[1].id : c \in {d \in Range(calls) : d.kind = "createTree"}}

FreshTreeId ==
  CHOOSE t \in ImportTreeIds \ UsedTreeIds :
    \A u \in ImportTreeIds \ UsedTreeIds : t <= u

\* the change handler of the file input
handleGedcomUpload(f) ==
  /\ nUpload < MaxUpload
  /\ nUpload' = nUpload + 1
  /\ IF assertAuthenticated(UserProp(user), <<"GEDCOM upload">>).throws
     THEN /\ toast' = "Please sign in to import a family archive."
          /\ UNCHANGED reads
     ELSE IF f = NoFile
     THEN UNCHANGED <<toast, reads>>
     ELSE /\ reads' = reads \cup {[text |-> f, uid |-> user]}
          /\ UNCHANGED toast
  /\ last' = Step("handleGedcomUpload", 0, 0)
  /\ UNCHANGED <<services, selection, pendingImport, view, harness, user, collections, isLoading,
                 error, prevProfilesRef, remote, calls, consoleErrors, nMut, nLogin>>

\* reader.onload showing the selection view before the text is parsed
ReaderOnload_ViewFirst(r) ==
  /\ r \in reads
  /\ ImportTreeIds \ UsedTreeIds # {}
  /\ reads' = reads \ {r}
  /\ view' = "SELECT_HOME"
  /\ LET result == parseGedcom(r.text, r.uid, FreshTreeId)
     IN  IF result.throws
         THEN /\ consoleErrors' = consoleErrors + 1
              /\ toast' = "Error parsing GEDCOM"
              /\ UNCHANGED pendingImport
         ELSE /\ pendingImport' = <<[importedProfiles |-> result.importedProfiles,
                                     tree |-> result.tree[1]]>>
              /\ toast' = "Loaded " \o ToString(Len(result.importedProfiles))
                                    \o " family members"
              /\ UNCHANGED consoleErrors
  /\ last' = Step("ReaderOnload", 0, 0)
  /\ UNCHANGED <<services, selection, nUpload, harness, user, collections, isLoading, error,
                 prevProfilesRef, remote, calls, nMut, nLogin>>

\* reader.onload: the text is parsed and held as the pending import
ReaderOnload(r) ==
  /\ r \in reads
  /\ ImportTreeIds \ UsedTreeIds # {}
  /\ reads' = reads \ {r}
  /\ LET result == parseGedcom(r.text, r.uid, FreshTreeId)
     IN  IF result.throws
         THEN /\ consoleErrors' = consoleErrors + 1
              /\ toast' = "Error parsing GEDCOM"
              /\ UNCHANGED <<pendingImport, view>>
         ELSE /\ pendingImport' = <<[importedProfiles |-> result.importedProfiles,
                                     tree |-> result.tree[1]]>>
              /\ view' = "SELECT_HOME"
              /\ toast' = "Loaded " \o ToString(Len(result.importedProfiles))
                                    \o " family members"
              /\ UNCHANGED consoleErrors
  /\ last' = Step("ReaderOnload", 0, 0)
  /\ UNCHANGED <<services, selection, nUpload, harness, user, collections, isLoading, error,
                 prevProfilesRef, remote, calls, nMut, nLogin>>

\* the merge appending every imported person
mergeImported_Concat(prev, importedProfiles) == prev \o importedProfiles

\* the merge of chooseHome: the imported people whose id is not there yet
mergeImported(prev, importedProfiles) ==
  LET existingIds == Ids(prev)
  IN  prev \o SelectSeq(importedProfiles, LAMBDA p : p.id \notin existingIds)

\* the tree committed with its first member as home
updatedTree_FirstMember(tree, selected) ==
  [tree EXCEPT !.homePersonId = tree.memberIds[1],
               !.name = "The " \o ToString(selected.id) \o " Archive"]

\* the tree chooseHome commits
updatedTree(tree, selected) ==
  [tree EXCEPT !.homePersonId = selected.id,
               !.name = "The " \o ToString(selected.id) \o " Archive"]

\* chooseHome(selected): the pending import goes into the store through
\* setProfiles and setFamilyTrees
chooseHome(selected) ==
  IF assertAuthenticated(UserProp(user), <<"GEDCOM home selection">>).throws
  THEN /\ toast' = "Please sign in to complete the import."
       /\ last' = Step("chooseHome", 0, 0)
       /\ UNCHANGED <<services, selection, pendingImport, view, reads, nUpload, harness, user, collections,
                      isLoading, error, prevProfilesRef, remote, calls, consoleErrors,
                      nMut, nLogin>>
  ELSE
  /\ pendingImport # <<>>
  /\ nMut < MaxMut
  /\ nMut' = nMut + 1
  /\ LET nextProfiles == mergeImported(profiles, pendingImport[1].importedProfiles)
         nextTrees    == <<updatedTree(pendingImport[1].tree, selected)>> \o familyTrees
         ups          == toUpsert(profiles, nextProfiles)
     IN  /\ profiles' = nextProfiles
         /\ prevProfilesRef' = nextProfiles
         /\ familyTrees' = nextTrees
         /\ calls' = (IF Len(ups) > 0
                      THEN upsertProfiles(calls, ups, 0, user, nMut + 1)
                      ELSE calls)
                     \o treeCalls(familyTrees, nextTrees, user, nMut + 1)
         /\ selectedTreeId' = nextTrees[1].id
  /\ activeProfileId' = selected.id
  /\ pendingImport' = <<>>
  /\ view' = "HOME"
  /\ toast' = "Archive successfully imported"
  /\ last' = Step("chooseHome", 0, selected.id)
  /\ UNCHANGED <<services, treeViewId, reads, nUpload, harness, user, circlePosts, isLoading, error,
                 remote, consoleErrors, nLogin>>

\* deleteProfileById of the hook kept in memory only: prev.filter(p => p.id !== id)
DeleteUpdaters(prev) == {RemoveId(prev, id) : id \in Ids(prev)}

\* ------------------------------------------------------- specifications
Respond(k) ==
  \/ LoadResolve(k)
  \/ LoadReject(k)
  \/ UpsertChunkOk(k)
  \/ UpsertChunkFail(k)
  \/ CreateTreeOk(k)
  \/ UpdateTreeOk(k)
  \/ CreatePostOk(k)
  \/ CreatePostFail(k)
  \/ MentionsOk(k)
  \/ MentionsFail(k)
  \/ DeletePostOk(k)
  \/ DeleteProfileOk(k)
  \/ PushFail(k)

Next ==
  \/ \E u \in Users : Login(u)
  \/ Logout
  \/ \E next \in ProfileUpdaters(profiles) : setProfiles(next)
  \/ \E next \in TreeUpdaters(familyTrees) : setFamilyTrees(next)
  \/ \E post \in Posts : addCirclePost(post)
  \/ \E id \in PostIds : deleteCirclePost(id)
  \/ \E id \in PostIds, patch \in PostPatches : updateCirclePost(id, patch)
  \/ \E id \in EditIds : deleteProfileById(id)
  \/ clearAll
  \/ \E id \in SelectIds : setActiveProfileId(id)
  \/ \E id \in TreeIds : setSelectedTreeId(id)
  \/ \E id \in TreeIds : setTreeViewId(id)
  \/ \E k \in DOMAIN calls : Respond(k)

Spec == Init /\ [][Next]_vars

\* the bulk import next to single edits, after login and load
InitBulk ==
  /\ InitServices
  /\ user = "u1"
  /\ profiles = <<>> /\ familyTrees = <<>> /\ circlePosts = <<>>
  /\ isLoading = FALSE /\ error = NoError
  /\ prevProfilesRef = <<>>
  /\ remoteProfiles = <<>> /\ remoteTrees = <<>> /\ remotePosts = <<>>
  /\ calls = <<[Call("load", "u1", 0, <<>>, 0) EXCEPT !.status = "ok"]>>
  /\ consoleErrors = 0
  /\ nMut = 0 /\ nLogin = 1
  /\ last = Step("LoadResolve", 1, 0)
  /\ activeProfileId = NoId /\ selectedTreeId = NoId /\ treeViewId = NoId
  /\ pendingImport = <<>> /\ view = "HOME" /\ reads = {} /\ toast = NoToast /\ nUpload = 0
  /\ arg = <<>> /\ ret = "none"

BulkUpdaters(prev) ==
  LET have == Ids(prev) IN
    ProfileUpdaters(prev)
    \cup {prev \o SelectSeq(MkProfiles(BulkN), LAMBDA p : p.id \notin have)}

NextBulk ==
  \/ \E next \in BulkUpdaters(profiles) : setProfiles(next)
  \/ \E k \in DOMAIN calls : UpsertChunkOk(k)
  \/ \E k \in DOMAIN calls : UpsertChunkFail(k)

SpecBulk == InitBulk /\ [][NextBulk]_vars

\* upsertProfiles called with n profiles, after login and load
callUpsertProfiles(n) ==
  /\ nMut = 0
  /\ nMut' = 1
  /\ calls' = upsertProfiles(calls, MkProfiles(n), 0, user, 0)
  /\ last' = Step("upsertProfiles", 0, n)
  /\ UNCHANGED <<services, selection, importer, harness, user, collections, isLoading, error, prevProfilesRef, remote,
                 consoleErrors, nLogin>>

NextChunk ==
  \/ \E n \in 0..MaxN : callUpsertProfiles(n)
  \/ \E k \in DOMAIN calls : UpsertChunkOk(k)
  \/ \E k \in DOMAIN calls : UpsertChunkFail(k)

SpecChunk == InitBulk /\ [][NextChunk]_vars

\* the import flow of a signed-in session, with deletions and sign-out
Selectable ==
  Range(profiles) \cup UNION {Range(pendingImport[i].importedProfiles) : i \in DOMAIN pendingImport}

NextImport ==
  \/ \E f \in Files : handleGedcomUpload(f)
  \/ \E r \in reads : ReaderOnload(r)
  \/ \E selected \in Selectable : chooseHome(selected)
  \/ \E next \in DeleteUpdaters(profiles) : setProfiles(next)
  \/ \E id \in Ids(profiles) : deleteProfileById(id)
  \/ Logout
  \/ \E k \in DOMAIN calls :
       \/ UpsertChunkOk(k)
       \/ UpsertChunkFail(k)
       \/ CreateTreeOk(k)
       \/ DeleteProfileOk(k)
       \/ PushFail(k)

SpecImport == InitBulk /\ [][NextImport]_vars

\* assertAuthenticated called with every kind of user and context
AuthIds == {"", " ", "0", "1", "false", "null", "undefined", "u1", "u2", "user-abc-123"}

AuthUsers == {Null, Undefined} \cup {UserObj(id) : id \in AuthIds}

AuthContexts ==
  {NoContext, <<"">>, <<"0">>, <<"x">>, <<"upload">>, <<"GEDCOM upload">>,
   <<"GEDCOM home selection">>, <<"media upload">>, <<"delete">>}

callAssertAuthenticated(u, context) ==
  /\ arg' = <<u, context>>
  /\ ret' = assertAuthenticated(u, context)
  /\ last' = Step("assertAuthenticated", 0, 0)
  /\ UNCHANGED <<services, selection, importer, user, collections, isLoading, error,
                 prevProfilesRef, remote, calls, consoleErrors, nMut, nLogin>>

\* the import flow across a change of user: a signed-in session with an empty
\* archive, a file parsed under it, sign-out and sign-in of either user
OwnerUsers == {"u1", "u2"}

InitOwner ==
  /\ InitServices
  /\ user = "u1"
  /\ profiles = <<>> /\ familyTrees = <<>> /\ circlePosts = <<>>
  /\ isLoading = FALSE /\ error = NoError
  /\ prevProfilesRef = <<>>
  /\ remoteProfiles = <<>> /\ remoteTrees = <<>> /\ remotePosts = <<>>
  /\ calls = <<[Call("load", "u1", 0, <<>>, 0) EXCEPT !.status = "ok"]>>
  /\ consoleErrors = 0
  /\ nMut = 0 /\ nLogin = 0
  /\ last = Step("LoadResolve", 1, 0)
  /\ activeProfileId = NoId /\ selectedTreeId = NoId /\ treeViewId = NoId
  /\ pendingImport = <<>> /\ view = "HOME" /\ reads = {} /\ toast = NoToast /\ nUpload = 0
  /\ arg = <<>> /\ ret = "none"

NextOwner ==
  \/ handleGedcomUpload("fam1")
  \/ \E r \in reads : ReaderOnload(r)
  \/ \E selected \in Selectable : chooseHome(selected)
  \/ Logout
  \/ \E u \in OwnerUsers : Login(u)
  \/ \E k \in DOMAIN calls :
       \/ LoadResolve(k)
       \/ UpsertChunkOk(k)
       \/ UpsertChunkFail(k)
       \/ CreateTreeOk(k)
       \/ PushFail(k)

SpecOwner == InitOwner /\ [][NextOwner]_vars

\* setFamilyTrees on collections of up to two trees: a tree or two added in
\* front, a tree renamed, given a home or a member, replaced by a new one, the array
\* reversed, emptied or handed back as it is
TreeEditIds == {1, 2}

NewTree(t) ==
  [id |-> t, userId |-> "u1", name |-> "a", homePersonId |-> NoHome, memberIds |-> <<1>>]

TreeEdits(prev) ==
  {prev, <<>>, Reverse(prev)}
  \cup {<<NewTree(t)>> \o prev : t \in TreeEditIds \ Ids(prev)}
  \cup (IF prev = <<>> THEN {<<NewTree(1), NewTree(2)>>} ELSE {})
  \cup {[prev EXCEPT ![i].name = IF @ = "a" THEN "b" ELSE "a"] : i \in DOMAIN prev}
  \cup {[prev EXCEPT ![i].homePersonId = IF @ = NoHome THEN 1 ELSE NoHome] : i \in DOMAIN prev}
  \cup {[prev EXCEPT ![i].memberIds = Append(@, 2)] :
          i \in {j \in DOMAIN prev : Len(prev[j].memberIds) < 2}}

NextTrees ==
  \/ \E next \in TreeEdits(familyTrees) : Len(next) <= 2 /\ setFamilyTrees(next)
  \/ \E k \in DOMAIN calls :
       \/ CreateTreeOk(k)
       \/ UpdateTreeOk(k)
       \/ PushFail(k)

SpecTrees == InitBulk /\ [][NextTrees]_vars

\* the import engine called on small texts: the individuals 1..4 (or none, or
\* 4 without a record), any choice of the family records of Pool (5 never has
\* a record)
MaxGenerations == 2

Pool ==
  <<Family(1, 2, {}), Family(1, NoId, {3}), Family(3, 2, {}), Family(3, 5, {4}),
    Family(NoId, 2, {4}), Family(4, NoId, {1})>>

Texts ==
  {Records(indis, SelectSeq(Pool, LAMBDA f : f \in S)) :
     indis \in {<<>>, <<1, 2, 3, 4>>, <<2, 1, 3>>}, S \in SUBSET Range(Pool)}

callImport(g, maxGenerations) ==
  /\ arg' = <<g, maxGenerations>>
  /\ ret' = importEngine(g, "u1", maxGenerations, 2, "text")
  /\ last' = Step("import", 0, maxGenerations)
  /\ UNCHANGED <<services, selection, importer, user, collections, isLoading, error,
                 prevProfilesRef, remote, calls, consoleErrors, nMut, nLogin>>

NextEngine == \E g \in Texts, m \in 0..MaxGenerations : callImport(g, m)

SpecEngine == Init /\ [][NextEngine]_vars

NextAuth == \E u \in AuthUsers, context \in AuthContexts : callAssertAuthenticated(u, context)

SpecAuth == Init /\ [][NextAuth]_vars

\* --------------------------------------------------------------- mediaRepo
MaxMedia == 2   \* uploadMedia calls in a run
MaxNow   == 2   \* readings of Date.now()

\* file names are sequences of characters; these stand for [a-zA-Z0-9._-]
SafeChars == {"a", "b", "1", ".", "_", "-"}

NoType == <<>>  \* file.type ''

MediaFiles ==
  {[name |-> <<"a", " ", "b">>, type |-> <<"image", "png">>, size |-> 1],
   [name |-> <<"a", "_", "b">>, type |-> NoType, size |-> 2]}

MediaTags == {{}, {1}}

safeName(name) == [i \in DOMAIN name |-> IF name[i] \in SafeChars THEN name[i] ELSE "_"]

storagePath(userId, now, file) == <<userId, now, safeName(file.name)>>

inferKind(mimeType) ==
  IF mimeType # NoType /\ mimeType[1] = "image" THEN "photo"
  ELSE IF mimeType # NoType /\ mimeType[1] = "video" THEN "video"
  ELSE IF mimeType # NoType /\ mimeType[1] = "audio" THEN "audio"
  ELSE "document"

\* the row uploadMedia inserts; the table gives it its id
mediaInsert(id, opts, path) ==
  [id |-> id, user_id |-> opts.userId, name |-> opts.file.name,
   kind |-> inferKind(opts.file.type), storage_path |-> path,
   mime |-> IF opts.file.type = NoType THEN <<"null">> ELSE opts.file.type,
   size |-> opts.file.size]

rowToMediaItem(row, signedUrl) ==
  [id |-> row.id, name |-> row.name, kind |-> row.kind, url |-> signedUrl,
   size |-> row.size]

Reject(up, msg) == [up EXCEPT !.pc = "done", !.outcome = "rejected", !.err = msg]

At36(u, pc) == u \in DOMAIN uploads /\ uploads[u].pc = pc

MediaFrame ==
  UNCHANGED <<selection, importer, harness, user, collections, isLoading, error,
              prevProfilesRef, remote, calls, nMut, nLogin, api, session>>

\* uploadMedia up to its first await: the path is built, the upload is sent
uploadMedia(opts, now) ==
  /\ Len(uploads) < MaxMedia
  /\ \A u \in DOMAIN uploads : uploads[u].storagePath[2] <= now
  /\ uploads' = Append(uploads,
                  [opts |-> opts, storagePath |-> storagePath(opts.userId, now, opts.file),
                   pc |-> "upload", row |-> <<>>, item |-> <<>>,
                   outcome |-> "pending", err |-> "none"])
  /\ last' = Step("uploadMedia", 0, 0)
  /\ MediaFrame /\ UNCHANGED <<mediaStore, consoleErrors>>

\* storage.upload with upsert: false stores the object under a free path
StorageUploadOk(u) ==
  /\ At36(u, "upload")
  /\ uploads[u].storagePath \notin DOMAIN bucket
  /\ bucket' = [p \in DOMAIN bucket \cup {uploads[u].storagePath} |->
                  IF p = uploads[u].storagePath
                  THEN [id |-> u, file |-> uploads[u].opts.file,
                        contentType |-> IF uploads[u].opts.file.type = NoType
                                        THEN <<"application", "octet-stream">>
                                        ELSE uploads[u].opts.file.type]
                  ELSE bucket[p]]
  /\ uploads' = [uploads EXCEPT ![u].pc = "insert"]
  /\ last' = Step("StorageUploadOk", u, 0)
  /\ MediaFrame /\ UNCHANGED <<mediaRows, mediaPeople, consoleErrors>>

StorageUploadFail(u) ==
  /\ At36(u, "upload")
  /\ uploads' = [uploads EXCEPT ![u] = Reject(@, "uploadMedia storage")]
  /\ last' = Step("StorageUploadFail", u, 0)
  /\ MediaFrame /\ UNCHANGED <<mediaStore, consoleErrors>>

\* the metadata row is inserted; tagging or the signed URL comes next
MediaInsertOk(u) ==
  /\ At36(u, "insert")
  /\ LET row == mediaInsert(Len(mediaRows) + 1, uploads[u].opts, uploads[u].storagePath)
     IN  /\ mediaRows' = Append(mediaRows, row)
         /\ uploads' = [uploads EXCEPT ![u].row = <<row>>,
                                       ![u].pc = IF uploads[u].opts.taggedProfileIds # {}
                                                 THEN "tag" ELSE "sign"]
  /\ last' = Step("MediaInsertOk", u, 0)
  /\ MediaFrame /\ UNCHANGED <<bucket, mediaPeople, consoleErrors>>

\* the insert failed: the removal of the uploaded object is sent
MediaInsertFail(u) ==
  /\ At36(u, "insert")
  /\ uploads' = [uploads EXCEPT ![u].pc = "remove"]
  /\ last' = Step("MediaInsertFail", u, 0)
  /\ MediaFrame /\ UNCHANGED <<mediaStore, consoleErrors>>

RemoveOk(u) ==
  /\ At36(u, "remove")
  /\ bucket' = [p \in DOMAIN bucket \ {uploads[u].storagePath} |-> bucket[p]]
  /\ uploads' = [uploads EXCEPT ![u] = Reject(@, "uploadMedia insert")]
  /\ last' = Step("RemoveOk", u, 0)
  /\ MediaFrame /\ UNCHANGED <<mediaRows, mediaPeople, consoleErrors>>

\* the removal failed: its outcome is dropped, the insert error is thrown
RemoveFail(u) ==
  /\ At36(u, "remove")
  /\ uploads' = [uploads EXCEPT ![u] = Reject(@, "uploadMedia insert")]
  /\ last' = Step("RemoveFail", u, 0)
  /\ MediaFrame /\ UNCHANGED <<mediaStore, consoleErrors>>

TagOk(u) ==
  /\ At36(u, "tag")
  /\ mediaPeople' = mediaPeople \cup
       {[media_id |-> uploads[u].row[1].id, profile_id |-> p, user_id |-> uploads[u].opts.userId] :
          p \in uploads[u].opts.taggedProfileIds}
  /\ uploads' = [uploads EXCEPT ![u].pc = "sign"]
  /\ last' = Step("TagOk", u, 0)
  /\ MediaFrame /\ UNCHANGED <<bucket, mediaRows, consoleErrors>>

TagFail(u) ==
  /\ At36(u, "tag")
  /\ consoleErrors' = consoleErrors + 1
  /\ uploads' = [uploads EXCEPT ![u].pc = "sign"]
  /\ last' = Step("TagFail", u, 0)
  /\ MediaFrame /\ UNCHANGED mediaStore

\* getSignedUrl returned a URL: uploadMedia returns the item
SignedUrlOk(u) ==
  /\ At36(u, "sign")
  /\ uploads' = [uploads EXCEPT ![u].pc = "done", ![u].outcome = "fulfilled",
                                ![u].item = <<rowToMediaItem(uploads[u].row[1], "signed")>>]
  /\ last' = Step("SignedUrlOk", u, 0)
  /\ MediaFrame /\ UNCHANGED <<mediaStore, consoleErrors>>

\* getSignedUrl throws (an error, or no URL returned): uploadMedia rejects
SignedUrlFail(u) ==
  /\ At36(u, "sign")
  /\ uploads' = [uploads EXCEPT ![u] = Reject(@, "getSignedUrl")]
  /\ last' = Step("SignedUrlFail", u, 0)
  /\ MediaFrame /\ UNCHANGED <<mediaStore, consoleErrors>>

NextMedia ==
  \/ \E f \in MediaFiles, tags \in MediaTags, now \in 1..MaxNow :
       uploadMedia([userId |-> "u1", file |-> f, taggedProfileIds |-> tags], now)
  \/ \E u \in 1..MaxMedia :
       \/ StorageUploadOk(u) \/ StorageUploadFail(u)
       \/ MediaInsertOk(u) \/ MediaInsertFail(u)
       \/ RemoveOk(u) \/ RemoveFail(u)
       \/ TagOk(u) \/ TagFail(u)
       \/ SignedUrlOk(u) \/ SignedUrlFail(u)

SpecMedia == Init /\ [][NextMedia]_vars

\* -------------------------------------------------------------- /api/gemini
MaxReq == 2   \* requests in a run

MAX_PROMPT_LENGTH == 8000

VALID_ACTIONS == {"summary", "research", "portrait"}

\* a field that is absent or not a string
Missing == [typeof |-> "undefined"]

\* a string prompt: `pad` characters of leading and trailing whitespace
\* around `text` characters
Prompt(pad, text) == [typeof |-> "string", pad |-> pad, text |-> text]

length(prompt)  == prompt.pad + prompt.text
trimmed(prompt) == prompt.text

Prompts == {Prompt(pad, text) : pad \in {0, 1}, text \in {0, MAX_PROMPT_LENGTH}} \cup {Missing}

ActionValues ==
  {[typeof |-> "string", value |-> a] : a \in VALID_ACTIONS \cup {"delete"}} \cup {Missing}

Bodies ==
  {Missing, [typeof |-> "string"]}
    \cup {[typeof |-> "object", action |-> a, prompt |-> p] : a \in ActionValues, p \in Prompts}

Methods == {"POST", "GET"}

Keys == {NoKey, "key"}

\* validate accepting a prompt whose trimmed text fits
validate_TrimmedLength(body) ==
  IF body.typeof # "object"
    THEN [throws |-> TRUE, status |-> 400, message |-> "body"]
  ELSE IF body.action.typeof # "string" \/ body.action.value \notin VALID_ACTIONS
    THEN [throws |-> TRUE, status |-> 400, message |-> "action"]
  ELSE IF body.prompt.typeof # "string" \/ trimmed(body.prompt) = 0
    THEN [throws |-> TRUE, status |-> 400, message |-> "prompt empty"]
  ELSE IF trimmed(body.prompt) > MAX_PROMPT_LENGTH
    THEN [throws |-> TRUE, status |-> 400, message |-> "prompt length"]
  ELSE [throws |-> FALSE, action |-> body.action.value, prompt |-> body.prompt]

\* validate(body): the request, or the RequestError thrown
validate(body) ==
  IF body.typeof # "object"
    THEN [throws |-> TRUE, status |-> 400, message |-> "body"]
  ELSE IF body.action.typeof # "string" \/ body.action.value \notin VALID_ACTIONS
    THEN [throws |-> TRUE, status |-> 400, message |-> "action"]
  ELSE IF body.prompt.typeof # "string" \/ trimmed(body.prompt) = 0
    THEN [throws |-> TRUE, status |-> 400, message |-> "prompt empty"]
  ELSE IF length(body.prompt) > MAX_PROMPT_LENGTH
    THEN [throws |-> TRUE, status |-> 400, message |-> "prompt length"]
  ELSE [throws |-> FALSE, action |-> body.action.value, prompt |-> body.prompt]

Request(method, body) ==
  [method |-> method, body |-> body, pc |-> "handler", action |-> "none",
   responses |-> <<>>, gemini |-> 0]

\* res.status(status).json(...), after which the handler returns
Answer(rq, status) == [rq EXCEPT !.responses = Append(@, status), !.pc = "done"]

ApiFrame ==
  UNCHANGED <<selection, importer, harness, user, collections, isLoading, error,
              prevProfilesRef, remote, calls, nMut, nLogin, mediaStore, uploads, session>>

\* the deployment sets or removes GEMINI_API_KEY
setApiKey(key) ==
  /\ apiKey # key
  /\ apiKey' = key
  /\ last' = Step("setApiKey", 0, 0)
  /\ ApiFrame /\ UNCHANGED <<requests, consoleErrors>>

\* handler(req, res) up to its await of dispatch
handler(method, body) ==
  /\ Len(requests) < MaxReq
  /\ LET rq == Request(method, body)
         v  == validate(body)
     IN  IF method # "POST"
         THEN /\ requests' = Append(requests, Answer(rq, 405))
              /\ UNCHANGED consoleErrors
         ELSE IF apiKey = NoKey
         THEN /\ requests' = Append(requests, Answer(rq, 500))
              /\ consoleErrors' = consoleErrors + 1
         ELSE IF v.throws
         THEN /\ requests' = Append(requests, Answer(rq, v.status))
              /\ UNCHANGED consoleErrors
         ELSE /\ requests' = Append(requests,
                               [rq EXCEPT !.pc = "dispatch", !.action = v.action, !.gemini = 1])
              /\ UNCHANGED consoleErrors
  /\ last' = Step("handler", 0, 0)
  /\ ApiFrame /\ UNCHANGED apiKey

AtApi(r, pc) == r \in DOMAIN requests /\ requests[r].pc = pc

\* generateContent resolved and dispatch returned a result
GeminiOk(r) ==
  /\ AtApi(r, "dispatch")
  /\ requests' = [requests EXCEPT ![r] = Answer(@, 200)]
  /\ last' = Step("GeminiOk", r, 0)
  /\ ApiFrame /\ UNCHANGED <<apiKey, consoleErrors>>

\* runPortrait found no image in the answer: RequestError(502)
GeminiNoImage(r) ==
  /\ AtApi(r, "dispatch")
  /\ requests[r].action = "portrait"
  /\ requests' = [requests EXCEPT ![r] = Answer(@, 502)]
  /\ last' = Step("GeminiNoImage", r, 0)
  /\ ApiFrame /\ UNCHANGED <<apiKey, consoleErrors>>

\* generateContent rejected: logged, answered with 502
GeminiFail(r) ==
  /\ AtApi(r, "dispatch")
  /\ consoleErrors' = consoleErrors + 1
  /\ requests' = [requests EXCEPT ![r] = Answer(@, 502)]
  /\ last' = Step("GeminiFail", r, 0)
  /\ ApiFrame /\ UNCHANGED apiKey

NextApi ==
  \/ \E key \in Keys : setApiKey(key)
  \/ \E method \in Methods, body \in Bodies : handler(method, body)
  \/ \E r \in 1..MaxReq : GeminiOk(r) \/ GeminiNoImage(r) \/ GeminiFail(r)

SpecApi == Init /\ [][NextApi]_vars

\* -------------------------------------------------------------- useSession
SessionUsers == {"u1", "u2"}

AppViews == {"SPLASH", "LOGIN", "HOME", "SELECT_HOME"}

SessionFrame ==
  UNCHANGED <<selection, pendingImport, reads, toast, nUpload, harness, collections,
              isLoading, error, prevProfilesRef, remote, calls, consoleErrors, nMut, nLogin,
              mediaStore, uploads, api>>

\* the mount effect: getSession is called, the auth listener is subscribed
Mount ==
  /\ restore = "unmounted"
  /\ restore' = "pending"
  /\ last' = Step("Mount", 0, 0)
  /\ SessionFrame /\ UNCHANGED <<user, view, loading, splashTimer>>

\* the callback of getSession().then: with a session the user and the view
\* are set and loading is cleared; without one the splash timer is armed and
\* the callback returns
GetSessionResolve(s) ==
  /\ restore = "pending"
  /\ IF s # NoUser
     THEN /\ restore' = "session"
          /\ user' = s
          /\ view' = "HOME"
          /\ loading' = FALSE
          /\ UNCHANGED splashTimer
     ELSE /\ restore' = "none"
          /\ splashTimer' = TRUE
          /\ UNCHANGED <<user, view, loading>>
  /\ last' = Step("GetSessionResolve", 0, 0)
  /\ SessionFrame

\* getSession rejected: the promise has no catch handler
GetSessionReject ==
  /\ restore = "pending"
  /\ restore' = "rejected"
  /\ last' = Step("GetSessionReject", 0, 0)
  /\ SessionFrame /\ UNCHANGED <<user, view, loading, splashTimer>>

\* the 1200 ms timer fires
SplashTimeout ==
  /\ splashTimer
  /\ splashTimer' = FALSE
  /\ view' = "LOGIN"
  /\ last' = Step("SplashTimeout", 0, 0)
  /\ SessionFrame /\ UNCHANGED <<user, loading, restore>>

\* the onAuthStateChange listener
AuthStateChange(s) ==
  /\ restore # "unmounted"
  /\ IF s # NoUser
     THEN /\ user' = s
          /\ view' = IF view \in {"LOGIN", "SPLASH"} THEN "HOME" ELSE view
     ELSE /\ user' = NoUser
          /\ view' = "LOGIN"
  /\ last' = Step("AuthStateChange", 0, 0)
  /\ SessionFrame /\ UNCHANGED session

login(u) ==
  /\ restore # "unmounted"
  /\ user' = u
  /\ view' = "HOME"
  /\ last' = Step("login", 0, 0)
  /\ SessionFrame /\ UNCHANGED session

\* logout, once signOut has returned
logout ==
  /\ restore # "unmounted"
  /\ user' = NoUser
  /\ view' = "LOGIN"
  /\ last' = Step("logout", 0, 0)
  /\ SessionFrame /\ UNCHANGED session

\* the setView the hook hands out
setView(v) ==
  /\ restore # "unmounted"
  /\ view' = v
  /\ last' = Step("setView", 0, 0)
  /\ SessionFrame /\ UNCHANGED <<user, session>>

NextSession ==
  \/ Mount
  \/ \E s \in SessionUsers \cup {NoUser} : GetSessionResolve(s)
  \/ GetSessionReject
  \/ SplashTimeout
  \/ \E s \in SessionUsers \cup {NoUser} : AuthStateChange(s)
  \/ \E u \in SessionUsers : login(u)
  \/ logout
  \/ \E v \in AppViews : setView(v)

SpecSession == Init /\ [][NextSession]_vars

\* the effect runs after the first render, and an armed timer fires
SpecSessionFair == SpecSession /\ WF_vars(Mount) /\ WF_vars(SplashTimeout)

\* ================================================================ claims
\* the upsert requests of the log, and the chunks of one upsertProfiles call
IsUpsert(k) == k \in DOMAIN calls /\ calls[k].kind = "upsert"

SameTask(i, j) == calls[i].mut = calls[j].mut /\ calls[i].args = calls[j].args

\* the entities a push carries, as <<table, id>>
Carries(c) ==
  IF c.kind = "upsert" THEN {<<"profiles", id>> : id \in Ids(ChunkOf(c))}
  ELSE IF c.kind \in {"createTree", "updateTree"} THEN {<<"trees", c.args[1].id>>}
  ELSE {}

\* C1: for one entity id, the pushes are issued in the order of the mutations
\* they come from: a push of an earlier mutation is never issued after a push
\* of a later mutation that carries the same entity.
C1_PushesIssuedInMutationOrder ==
  \A i, j \in DOMAIN calls :
    (i < j /\ Carries(calls[i]) \cap Carries(calls[j]) # {})
      => calls[i].mut <= calls[j].mut

\* the remote store holds the in-memory revision of every entity in memory
RemoteHolds(p) ==
  p.id \in DOMAIN remoteProfiles /\ rowToProfile(p.id, remoteProfiles[p.id]) = p

RemoteHoldsTree(t) == \E i \in DOMAIN remoteTrees : rowToTree(remoteTrees[i]) = t

AllSucceeded == \A k \in DOMAIN calls : calls[k].status = "ok"

\* C2: once every request has completed successfully, the remote store holds
\* the latest in-memory revision of every Person and Tree, whatever the order
\* in which the store completed the requests.
C2_NoOutOfOrderOverwrite ==
  AllSucceeded =>
    /\ \A i \in DOMAIN profiles : RemoteHolds(profiles[i])
    /\ \A i \in DOMAIN familyTrees : RemoteHoldsTree(familyTrees[i])

\* the request k is answered in this step
Answered(k) == calls[k].status = "pending" /\ calls'[k].status # "pending"

Rejected(k) == calls[k].status = "pending" /\ calls'[k].status = "failed"

\* C3: when the createPost of addCirclePost(p) fails, p is not in the post
\* collection afterwards and exactly one error is reported for the failure.
C3_CreateOptimisticRollback ==
  [][\A k \in DOMAIN calls :
       (calls[k].kind = "createPost" /\ Rejected(k))
         => /\ calls[k].args[1] \notin Range(circlePosts')
            /\ consoleErrors' = consoleErrors + 1]_vars

C3_Witness ==
  /\ last.op = "CreatePostFail"
  /\ calls[last.k].status = "failed"
  /\ calls[last.k].auth # NoUser
  /\ last.id \notin Ids(circlePosts)
  /\ consoleErrors = 1

\* C4: after a failed push of a signed-in session the `error` state of the
\* store reflects the failure.
C4_PushFailureSurfaced ==
  (/\ last.op \in {"UpsertChunkFail", "CreatePostFail", "PushFail"}
   /\ calls[last.k].auth # NoUser)
    => error # NoError

\* C5: the answer to a request that was in flight when the cache was torn down
\* (logout or clearAll) changes none of the in-memory collections.
C5_NoMutationAfterTeardown ==
  [][\A k \in DOMAIN calls :
       (calls[k].stale /\ Answered(k)) => UNCHANGED collections]_vars

\* this step is the store operation op
Applies(op) == nMut' = nMut + 1 /\ last'.op = op

\* the requests issued in this step
Issued == SubSeq(calls', Len(calls) + 1, Len(calls'))

\* next differs from prev in exactly the item at position i, which keeps its id
OneChanged(prev, next, i) ==
  /\ Len(next) = Len(prev) /\ i \in DOMAIN prev
  /\ next[i] # prev[i] /\ next[i].id = prev[i].id
  /\ \A j \in DOMAIN prev : j # i => next[j] = prev[j]

\* C6: a mutate that leaves the collection as it was issues no request; a
\* mutate that changes one existing item issues exactly one write, and that
\* write carries that item only.
C6_MinimalWrites ==
  [][/\ Applies("setProfiles") =>
          /\ profiles' = profiles => Issued = <<>>
          /\ \A i \in DOMAIN profiles :
               OneChanged(profiles, profiles', i) =>
                 /\ Len(Issued) = 1
                 /\ Issued[1].kind = "upsert"
                 /\ ChunkOf(Issued[1]) = <<profiles'[i]>>
     /\ Applies("setFamilyTrees") =>
          /\ familyTrees' = familyTrees => Issued = <<>>
          /\ \A i \in DOMAIN familyTrees :
               OneChanged(familyTrees, familyTrees', i) =>
                 /\ Len(Issued) = 1
                 /\ Issued[1].kind = "updateTree"
                 /\ Issued[1].args[1].id = familyTrees'[i].id]_vars

C6_Witness ==
  /\ last.op = "setProfiles"
  /\ Len(profiles) = 2
  /\ calls[Len(calls)].mut = nMut
  /\ calls[Len(calls)].kind = "upsert"
  /\ Len(calls[Len(calls)].args) = 1
  /\ calls[Len(calls)].args[1].v = 2
  /\ calls[Len(calls)].args[1] \in Range(profiles)

\* the push of p by a signed-in session failed and no push carrying p has
\* succeeded
PushFailed(p) ==
  /\ \E k \in DOMAIN calls :
       /\ IsUpsert(k) /\ calls[k].status = "failed" /\ calls[k].auth # NoUser
       /\ p \in Range(ChunkOf(calls[k]))
  /\ ~ \E k \in DOMAIN calls :
       IsUpsert(k) /\ calls[k].status = "ok" /\ p \in Range(ChunkOf(calls[k]))

IssuedCarry(p) ==
  \E k \in DOMAIN Issued :
    Issued[k].kind = "upsert" /\ p \in Range(Issued[k].args)

Upserts == SelectSeq(calls, LAMBDA c : c.kind = "upsert")

\* the direct call of upsertProfiles has returned its result
Resolved ==
  /\ Upserts # <<>>
  /\ \A k \in DOMAIN Upserts : Upserts[k].status = "ok"
  /\ Upserts[Len(Upserts)].off + CHUNK >= Len(Upserts[1].args)

\* C8: upsertProfiles over n profiles issues ceil(n / 200) requests, all but
\* the last of 200 items, the last of the rest, and the chunks in issue order
\* make up the input; no profile, no request.
C8_Chunking ==
  /\ (last.op = "upsertProfiles" /\ last.id = 0) => Upserts = <<>>
  /\ (last.op = "upsertProfiles" /\ last.id > 0) =>
       Len(Upserts) = 1 /\ Len(Upserts[1].args) = last.id
  /\ Resolved =>
       LET input == Upserts[1].args
           n     == Len(input)
           m     == (n + 199) \div 200
       IN  /\ Len(Upserts) = m
           /\ \A k \in 1..(m - 1) : Len(ChunkOf(Upserts[k])) = 200
           /\ Len(ChunkOf(Upserts[m])) = n - 200 * (m - 1)
           /\ \A j \in 1..n :
                input[j] = ChunkOf(Upserts[((j - 1) \div 200) + 1])[((j - 1) % 200) + 1]

C8_Witness ==
  /\ Resolved
  /\ Len(Upserts) = 3
  /\ Len(Upserts[1].args) = 450
  /\ Len(ChunkOf(Upserts[1])) = 200
  /\ Len(ChunkOf(Upserts[2])) = 200
  /\ Len(ChunkOf(Upserts[3])) = 50

\* the rows of a chunk are in the remote store
Committed(c) == \A i \in DOMAIN ChunkOf(c) : RemoteHolds(ChunkOf(c)[i])

\* C9: a chunk is issued only after the chunk before it has returned without
\* error; when a chunk fails the chunks before it are committed and no chunk
\* after it is issued.
C9_ChunksSequential ==
  \A j \in DOMAIN calls :
    IsUpsert(j) =>
      /\ \A i \in 1..(j - 1) :
           (IsUpsert(i) /\ SameTask(i, j)) =>
              /\ calls[i].status = "ok"
              /\ calls[i].off < calls[j].off
              /\ calls[j].status = "failed" => Committed(calls[i])
      /\ calls[j].status = "failed" =>
           ~ \E i \in DOMAIN calls : i > j /\ IsUpsert(i) /\ SameTask(i, j)

C9_Witness ==
  \E j \in DOMAIN calls :
    /\ IsUpsert(j) /\ calls[j].status = "failed" /\ calls[j].off = CHUNK
    /\ Len(calls[j].args) > 2 * CHUNK
    /\ \E i \in DOMAIN calls : i < j /\ IsUpsert(i) /\ Committed(calls[i])

\* the ordinal of chunk j among the chunks of its upsertProfiles call
ChunkIndex(j) == Cardinality({i \in 1..(j - 1) : IsUpsert(i) /\ SameTask(i, j)})

\* C10 as claimed: the error of a failed chunk names the chunk's index, 0 for
\* the first chunk, 1 for the second.
C10_ErrorNamesChunkIndex ==
  \A j \in DOMAIN calls :
    (IsUpsert(j) /\ calls[j].status = "failed")
      => calls[j].err = [fn |-> "upsertProfiles", chunk |-> ChunkIndex(j)]

\* C10 amended: the error of a failed chunk names the offset of the chunk's
\* first item in the input, 200 times the chunk's index.
C10_ErrorNamesChunkOffset ==
  \A j \in DOMAIN calls :
    (IsUpsert(j) /\ calls[j].status = "failed")
      => calls[j].err = [fn |-> "upsertProfiles", chunk |-> 200 * ChunkIndex(j)]

C10_Witness ==
  \E j \in DOMAIN calls :
    /\ IsUpsert(j) /\ calls[j].status = "failed"
    /\ ChunkIndex(j) = 1
    /\ calls[j].err.chunk = 200

\* the person p is deleted in this step: filtered out of the collection by
\* setProfiles, or handed to deleteProfileById
Deletes(p) ==
  /\ p \in Ids(profiles)
  /\ \/ Applies("setProfiles") /\ profiles' = RemoveId(profiles, p)
     \/ Applies("deleteProfileById") /\ last'.id = p

Refers(q, p) == p \in q.parentIds \cup q.childIds \cup q.spouseIds

\* C11: after a person p is deleted, no other person in memory has p's id in
\* its parentIds, childIds or spouseIds, and no tree in memory has p's id in
\* its memberIds.
C11_DeleteCascades ==
  [][\A p \in Ids(profiles) :
       Deletes(p) =>
         /\ \A q \in Range(profiles') : q.id # p => ~Refers(q, p)
         /\ \A t \in Range(familyTrees') : p \notin Range(t.memberIds)]_vars

\* this step issues exactly one request, of the given kind, for the id x
IssuesOne(kind, x) ==
  Len(Issued) = 1 /\ Issued[1].kind = kind /\ Issued[1].args[1].id = x

\* C12: deleteProfileById(x) and deleteCirclePost(x) leave the in-memory
\* collection without x and issue exactly one remote delete for x; when a
\* remote delete fails, the in-memory collections stay as they are.
C12_DeleteLocalAndRemote ==
  [][/\ Applies("deleteCirclePost") =>
          /\ last'.id \notin Ids(circlePosts')
          /\ IssuesOne("deletePost", last'.id)
     /\ Applies("deleteProfileById") =>
          /\ last'.id \notin Ids(profiles')
          /\ IssuesOne("deleteProfile", last'.id)
     /\ \A k \in DOMAIN calls :
          (calls[k].kind \in {"deletePost", "deleteProfile"} /\ Rejected(k))
            => UNCHANGED collections]_vars

\* C13: every tree in memory whose homePersonId is set has that id among its
\* memberIds; chooseHome commits a tree with homePersonId = selected.id only
\* when selected.id is a member of the pending tree.
C13_HomeIsMember ==
  \A t \in Range(familyTrees) :
    t.homePersonId # NoHome => t.homePersonId \in Range(t.memberIds)

\* the relationship sets of the persons of ps mirror each other
Symmetric(ps) ==
  \A a, b \in Range(ps) :
    /\ b.id \in a.childIds <=> a.id \in b.parentIds
    /\ b.id \in a.spouseIds <=> a.id \in b.spouseIds

\* C14: when the relationship sets are symmetric over the collection and over
\* the imported set, they are symmetric over the collection after chooseHome
\* has merged the import, and after the deletion of a person.
C14_SymmetryPreserved ==
  [][(/\ Symmetric(profiles)
      /\ \/ Applies("chooseHome") /\ Symmetric(pendingImport[1].importedProfiles)
         \/ \E p \in Ids(profiles) : Deletes(p))
       => Symmetric(profiles')]_vars

DeleteKinds == {"deleteProfile", "deletePost", "deleteTree"}

\* C15: a mutate whose result leaves out items of the collection, the empty
\* array included, issues no remote delete; a remote delete is issued only by
\* deleteProfileById and deleteCirclePost, for the id they are given.
C15_NoImplicitDelete ==
  [][\A i \in DOMAIN Issued :
       Issued[i].kind \in DeleteKinds =>
         \/ Applies("deleteProfileById") /\ IssuesOne("deleteProfile", last'.id)
         \/ Applies("deleteCirclePost") /\ IssuesOne("deletePost", last'.id)]_vars

C15_Witness ==
  /\ last.op = "setProfiles"
  /\ profiles = <<>>
  /\ DOMAIN remoteProfiles # {}
  /\ \A k \in DOMAIN calls : calls[k].kind \notin DeleteKinds

\* C16: the step that applies the result of the initial load issues no
\* request, and a mutate that comes right after it and returns the loaded
\* collection unchanged issues none either.
C16_LoadLeavesNoWrites ==
  [][/\ \A k \in DOMAIN calls :
          (calls[k].kind = "load" /\ Answered(k)) => Issued = <<>>
     /\ (last.op = "LoadResolve" /\ Applies("setProfiles") /\ profiles' = profiles)
          => Issued = <<>>
     /\ (last.op = "LoadResolve" /\ Applies("setFamilyTrees") /\ familyTrees' = familyTrees)
          => Issued = <<>>]_vars

C16_Witness ==
  /\ last.op = "setProfiles"
  /\ user # NoUser
  /\ \E k \in DOMAIN calls :
       calls[k].kind = "load" /\ calls[k].status = "ok" /\ ~calls[k].cancelled
  /\ Len(profiles) = 2
  /\ profiles = listProfiles(user)
  /\ \A k \in DOMAIN calls : calls[k].mut # nMut /\ calls[k].status # "pending"

\* C17: when upsertProfiles, createTree, updateTree, deletePost or
\* deleteProfile fails, the persons, trees and posts in memory and the three
\* selection ids are what they were before the failure was delivered.
C17_StoreFailureKeepsMemory ==
  [][\A k \in DOMAIN calls :
       (/\ calls[k].kind \in {"upsert", "createTree", "updateTree",
                               "deletePost", "deleteProfile"}
        /\ Rejected(k))
         => UNCHANGED <<collections, selection>>]_vars

C17_Witness ==
  /\ last.op = "PushFail"
  /\ calls[last.k].kind = "createTree"
  /\ calls[last.k].status = "failed"
  /\ calls[last.k].args[1] \in Range(familyTrees)
  /\ selectedTreeId = calls[last.k].args[1].id

\* the collections ps, ts, qs hold what the push c carries
Holds(c, ps, ts, qs) ==
  IF c.kind = "upsert" THEN Range(ChunkOf(c)) \subseteq Range(ps)
  ELSE IF c.kind = "createTree" THEN c.args[1] \in Range(ts)
  ELSE IF c.kind = "updateTree" THEN \E t \in Range(ts) : treePatch(t) = c.args[1]
  ELSE IF c.kind = "createPost" THEN c.args[1] \in Range(qs)
  ELSE TRUE

\* this step is neither an operation of the store nor a change of session
Passive == nMut' = nMut /\ user' = user

\* C18: the step of setProfiles, setFamilyTrees or addCirclePost that issues a
\* push puts the pushed value into memory while the push is still unanswered,
\* and as long as the push stays unanswered no step other than a further
\* operation of the store or a change of session takes the value out again.
C18_NonBlockingMutation ==
  [][/\ (Applies("setProfiles") \/ Applies("setFamilyTrees") \/ Applies("addCirclePost"))
          => \A i \in DOMAIN Issued :
               /\ Issued[i].status = "pending"
               /\ Holds(Issued[i], profiles', familyTrees', circlePosts')
     /\ \A k \in DOMAIN calls :
          (/\ calls[k].status = "pending" /\ calls'[k].status = "pending"
           /\ Passive
           /\ Holds(calls[k], profiles, familyTrees, circlePosts))
            => Holds(calls[k], profiles', familyTrees', circlePosts')]_vars

\* C19: when the insert of the post row has succeeded and the insert into
\* post_people fails, createPost resolves: the post stays in memory and only
\* the partial failure is logged; when the insert of the post row fails,
\* createPost rejects without attempting the insert into post_people.
C19_MentionsBestEffort ==
  [][/\ \A k \in DOMAIN calls :
          (calls[k].kind = "mentions" /\ Rejected(k))
            => /\ UNCHANGED collections
               /\ consoleErrors' = consoleErrors + 1
     /\ \A k \in DOMAIN calls :
          (calls[k].kind = "createPost" /\ Rejected(k)) => Issued = <<>>
     /\ \A i \in DOMAIN Issued :
          Issued[i].kind = "mentions"
            => \E k \in DOMAIN calls :
                 /\ calls[k].kind = "createPost" /\ calls[k].args = Issued[i].args
                 /\ calls[k].status = "pending" /\ calls'[k].status = "ok"]_vars

C19_Witness ==
  /\ last.op = "MentionsFail"
  /\ calls[last.k].status = "failed"
  /\ calls[last.k].auth # NoUser
  /\ calls[last.k].args[1] \in Range(circlePosts)
  /\ \E i \in DOMAIN remotePosts :
       remotePosts[i].id = last.id /\ remotePosts[i].post_people = <<>>

\* C20: assertAuthenticated(user, context) throws an AuthenticationError with
\* code NOT_AUTHENTICATED exactly when user is null, undefined or has an empty
\* id, and returns normally for every user with a non-empty id, whatever the
\* context is.
C20_AssertAuthenticated ==
  last.op = "assertAuthenticated" =>
    LET u == arg[1] IN
      /\ ret.throws <=> (u = Null \/ u = Missing \/ u.id = "")
      /\ ret.throws => ret.name = "AuthenticationError" /\ ret.code = "NOT_AUTHENTICATED"
      /\ ~ret.throws => ret = Returns

C20_Witness ==
  /\ last.op = "assertAuthenticated"
  /\ arg = <<UserObj(""), <<"GEDCOM upload">>>>
  /\ ret.throws /\ ret.code = "NOT_AUTHENTICATED"


\* ---------------------------------------------------------------- C21
\* a step of the named handler (every handler names itself in `last`)
Handles(op) == last'.op = op /\ vars' # vars

\* C21: without an authenticated user handleGedcomUpload reads no file and
\* leaves pendingImport and the view as they are, and chooseHome leaves the
\* persons, the trees, the selected tree, the active profile, pendingImport
\* and the view as they are and issues no remote write, pending import or not.
C21_ImportAuthGate ==
  [][/\ (user = NoUser /\ Handles("handleGedcomUpload"))
          => /\ UNCHANGED <<reads, pendingImport, view>>
             /\ Issued = <<>>
     /\ (user = NoUser /\ Handles("chooseHome"))
          => /\ UNCHANGED <<profiles, familyTrees, selectedTreeId, activeProfileId,
                            pendingImport, view>>
             /\ Issued = <<>>]_vars

\* signed out with an import pending, chooseHome was refused, and a file
\* offered after sign-out was refused as well
C21_Witness ==
  /\ user = NoUser
  /\ pendingImport # <<>>
  /\ last.op = "chooseHome"
  /\ toast = "Please sign in to complete the import."
  /\ nUpload = MaxUpload
  /\ reads = {}


\* ---------------------------------------------------------------- C22
\* the import engine has returned people
Imported == last.op = "import" /\ ~ret.throws

DistinctIds(ps) == \A i, j \in DOMAIN ps : ps[i].id = ps[j].id => i = j

\* C22: the Persons the import engine returns have pairwise distinct ids, and
\* for all returned A and B, B is in A.childIds iff A is in B.parentIds and B
\* is in A.spouseIds iff A is in B.spouseIds, also when the generation bound
\* cuts off one end of a family link.
C22_ImportConsistent ==
  Imported => /\ DistinctIds(ret.importedProfiles)
              /\ Symmetric(ret.importedProfiles)

\* a returned parent and child, and a returned person whose child has a
\* record but lies beyond the generation bound
C22_Witness ==
  /\ Imported
  /\ \E a, b \in Range(ret.importedProfiles) : b.id \in a.childIds
  /\ \E a \in Range(ret.importedProfiles) :
       \E c \in a.childIds :
         c \in Individuals(arg[1]) /\ c \notin Ids(ret.importedProfiles)


\* ---------------------------------------------------------------- C23
\* S and everyone linked to S by a chain of spouse edges
RECURSIVE SpouseClosure(_, _)
SpouseClosure(g, S) ==
  LET T == S \cup UNION {spousesOf(g, i) : i \in S}
  IN  IF T = S THEN S ELSE SpouseClosure(g, T)

\* the individuals reachable from the starting individual over a path that
\* crosses at most n parent/child edges
RECURSIVE Within(_, _)
Within(g, n) ==
  IF n = 0 THEN SpouseClosure(g, {g.indis[1]})
  ELSE LET R == Within(g, n - 1)
       IN  SpouseClosure(g, R \cup UNION {parentsOf(g, i) \cup childrenOf(g, i) : i \in R})

\* C23: the individuals the import engine visits are exactly those reachable
\* from the starting individual over a path crossing at most maxGenerations
\* parent/child edges, spouse edges being free, although each individual is
\* visited once in breadth-first order.
C23_VisitsAllWithinBound ==
  Imported => Ids(ret.importedProfiles) = Within(arg[1], arg[2])

\* what the traversal does keep: nobody beyond the bound is visited
VisitsOnlyWithinBound ==
  Imported => Ids(ret.importedProfiles) \subseteq Within(arg[1], arg[2])


\* ---------------------------------------------------------------- C24
Start(g) == g.indis[1]

\* C24 as stated: with maxGenerations = 0 the import yields exactly the
\* starting individual and the starting individual's spouses, and no parent
\* and no child of the starting individual or of a spouse.
C24_StartAndOwnSpouses ==
  (Imported /\ arg[2] = 0) =>
    LET g == arg[1]
        own == {Start(g)} \cup spousesOf(g, Start(g))
    IN  /\ Ids(ret.importedProfiles) = own
        /\ \A i \in own :
             Ids(ret.importedProfiles) \cap (parentsOf(g, i) \cup childrenOf(g, i)) = {}

\* C24: with maxGenerations = 0 the import yields exactly the starting
\* individual and everyone linked to it by a chain of spouse edges (a spouse's
\* further spouse included); no parent/child edge is crossed.
C24_StartAndSpouseChain ==
  (Imported /\ arg[2] = 0) =>
    Ids(ret.importedProfiles) = SpouseClosure(arg[1], {Start(arg[1])})

\* an import with bound 0 that returns a spouse of a spouse and leaves out a
\* parent or child of the starting individual
C24_Witness ==
  /\ Imported /\ arg[2] = 0
  /\ LET g == arg[1]
     IN  /\ Ids(ret.importedProfiles) \ ({Start(g)} \cup spousesOf(g, Start(g))) # {}
         /\ (parentsOf(g, Start(g)) \cup childrenOf(g, Start(g)))
              \ Ids(ret.importedProfiles) # {}


\* ---------------------------------------------------------------- C25
\* the read that reader.onload delivers in this step
Delivered == CHOOSE r \in reads : r \notin reads'

ImportFailed == consoleErrors' = consoleErrors + 1 /\ toast' = "Error parsing GEDCOM"

Dangling(g) ==
  \E f \in Range(g.fams) : (Pair(f) \cup f.chil) \ ({NoId} \cup Individuals(g)) # {}

\* C25: the import fails exactly when the text has no Individual record, and
\* not because a family record names an individual without a record (that end
\* is left out of the id-sets); a failed import commits nothing: pendingImport,
\* the view and the collections stay as they are.
C25_ParseErrorOnlyWithoutIndividuals ==
  [][Handles("ReaderOnload") =>
       LET g == Graph(Delivered.text)
       IN  /\ ImportFailed <=> g.indis = <<>>
           /\ ImportFailed => UNCHANGED <<pendingImport, view, collections>>
           /\ ~ImportFailed =>
                /\ pendingImport' # <<>>
                /\ \A p \in Range(pendingImport'[1].importedProfiles) :
                     p.parentIds \cup p.childIds \cup p.spouseIds \subseteq Individuals(g)]_vars

\* a text with a dangling family reference was imported, and a later text
\* without individuals failed and left that pending import and the view alone
C25_Witness ==
  /\ last.op = "ReaderOnload"
  /\ toast = "Error parsing GEDCOM"
  /\ consoleErrors > 0
  /\ view = "SELECT_HOME"
  /\ pendingImport # <<>>
  /\ Dangling(Graph(pendingImport[1].tree.name))


\* ---------------------------------------------------------------- C26
\* C26: the tree of an import has memberIds equal to the ids of all imported
\* Persons and no home person; the home stays unset until chooseHome, which
\* commits the tree with homePersonId set to the selected Person's id.
C26_HomeUnsetUntilChosen ==
  [][/\ pendingImport' # <<>> =>
          LET t == pendingImport'[1].tree
          IN  /\ Range(t.memberIds) = Ids(pendingImport'[1].importedProfiles)
              /\ Len(t.memberIds) = Len(pendingImport'[1].importedProfiles)
              /\ t.homePersonId = NoHome
     /\ (Handles("chooseHome") /\ user # NoUser) =>
          LET t == pendingImport[1].tree
          IN  /\ familyTrees'[1].id = t.id
              /\ familyTrees'[1].memberIds = t.memberIds
              /\ familyTrees'[1].homePersonId = last'.id
              /\ Len(familyTrees') = Len(familyTrees) + 1]_vars

\* chooseHome has committed an imported tree whose home is the selected
\* person, not the first member
C26_Witness ==
  /\ last.op = "chooseHome" /\ last.id # NoId
  /\ familyTrees # <<>>
  /\ familyTrees[1].homePersonId = last.id
  /\ familyTrees[1].memberIds = <<1, 2, 3>>
  /\ last.id = 2


\* ---------------------------------------------------------------- C27
IssuedOf(kind) == SelectSeq(Issued, LAMBDA c : c.kind = kind)

\* C27: chooseHome merges without duplicates: the Person ids stay pairwise
\* distinct (when they were, in the collection and in the import), every
\* Person already there is unchanged and keeps its position, exactly the
\* imported Persons whose id was not there are appended, and the upsert the
\* merge issues carries exactly the appended Persons.
C27_MergeDeduplicates ==
  [][(Handles("chooseHome") /\ user # NoUser) =>
       LET imp   == pendingImport[1].importedProfiles
           added == SubSeq(profiles', Len(profiles) + 1, Len(profiles'))
       IN  /\ (DistinctIds(profiles) /\ DistinctIds(imp)) => DistinctIds(profiles')
           /\ Len(profiles') >= Len(profiles)
           /\ SubSeq(profiles', 1, Len(profiles)) = profiles
           /\ Range(added) = {p \in Range(imp) : p.id \notin Ids(profiles)}
           /\ DistinctIds(imp) => DistinctIds(added)
           /\ IF added = <<>>
              THEN IssuedOf("upsert") = <<>>
              ELSE /\ Len(IssuedOf("upsert")) = 1
                   /\ IssuedOf("upsert")[1].args = added
                   /\ IssuedOf("upsert")[1].off = 0]_vars

\* a second import sharing person 2 with the collection was merged: person 2
\* is the one that was there, and person 4 alone was appended and upserted
C27_Witness ==
  /\ last.op = "chooseHome" /\ last.id # NoId
  /\ Len(profiles) = 4
  /\ profiles[2] = Relative(2, {1}, {}, {3})
  /\ profiles[4].id = 4
  /\ \E k \in DOMAIN calls :
       /\ calls[k].kind = "upsert"
       /\ calls[k].args = <<profiles[4]>>
       /\ \A j \in DOMAIN calls : j > k => calls[j].kind # "upsert"


\* ---------------------------------------------------------------- C28
\* the calls of this step of the given kind for the tree t
IssuedFor(kind, t) ==
  Cardinality({i \in DOMAIN Issued : Issued[i].kind = kind /\ Issued[i].args[1].id = t.id})

\* C28: for each tree of the result of a setFamilyTrees exactly one happens: a
\* create is issued (the id was not in the previous collection), an update
\* with homePersonId, memberIds and name only is issued (the id was there and
\* the tree differs from the previous one), or nothing is issued (there and
\* equal); never a create and an update for the same tree.
C28_OneCallPerTree ==
  [][Applies("setFamilyTrees") =>
       /\ \A c \in Range(Issued) :
            /\ c.kind \in {"createTree", "updateTree"}
            /\ c.args[1].id \in Ids(familyTrees')
       /\ \A t \in Range(familyTrees') :
            LET olds == {o \in Range(familyTrees) : o.id = t.id}
            IN  /\ olds = {} =>
                     /\ IssuedFor("createTree", t) = 1 /\ IssuedFor("updateTree", t) = 0
                     /\ \E c \in Range(Issued) : c.kind = "createTree" /\ c.args[1] = t
                /\ (olds # {} /\ t \notin olds) =>
                     /\ IssuedFor("createTree", t) = 0 /\ IssuedFor("updateTree", t) = 1
                     /\ \E c \in Range(Issued) :
                          /\ c.kind = "updateTree"
                          /\ c.args[1] = [id |-> t.id, homePersonId |-> t.homePersonId,
                                          memberIds |-> t.memberIds, name |-> t.name]
                /\ t \in olds =>
                     IssuedFor("createTree", t) = 0 /\ IssuedFor("updateTree", t) = 0]_vars

\* one setFamilyTrees on two stored trees changed one of them: one update,
\* nothing for the other
C28_Witness ==
  /\ last.op = "setFamilyTrees"
  /\ Len(familyTrees) = 2
  /\ Len(calls) = 4
  /\ calls[2].kind = "createTree" /\ calls[3].kind = "createTree"
  /\ calls[4].kind = "updateTree" /\ calls[4].mut = 2


\* ---------------------------------------------------------------- C29
\* C29: what was added in memory after login and before the initial load
\* resolved is still in memory after the load result has been applied: a
\* Person, Tree or Post held when the load resolves is held afterwards.
C29_LoadKeepsLocalMutations ==
  [][Handles("LoadResolve") =>
       /\ Ids(profiles) \subseteq Ids(profiles')
       /\ Ids(familyTrees) \subseteq Ids(familyTrees')
       /\ Ids(circlePosts) \subseteq Ids(circlePosts')]_vars


\* ---------------------------------------------------------------- C30
\* an initial load is in flight and its result will still be applied
LoadInFlight ==
  \E k \in DOMAIN calls : Pending(k) /\ calls[k].kind = "load" /\ ~calls[k].cancelled

\* C30: once no initial load is in flight whose result will still be applied
\* (it finished, failed, or was cancelled by a change of user or a logout),
\* isLoading is false; a logout during the load does not leave it at true.
C30_IsLoadingSettles == ~LoadInFlight => isLoading = FALSE


\* ---------------------------------------------------------------- C31
\* trees_home_person_fk: a home_person_id is null or the id of a stored profile
HomeKnown(home) == home = SqlNull \/ home \in DOMAIN remoteProfiles

\* C31: the store never receives the create of a tree before the upsert of
\* its home person is committed: when a createTree is answered, the
\* home_person_id it carries is null or names a stored profile.
C31_TreeCreateAfterHomeUpsert ==
  [][\A k \in DOMAIN calls :
       (Answered(k) /\ calls[k].kind = "createTree")
         => HomeKnown(treeToInsert(calls[k].args[1]).home)]_vars


\* ---------------------------------------------------------------- C32
Count(s, x) == Cardinality({i \in DOMAIN s : s[i] = x})

\* C32: the rollback of a failed createPost for post p takes out only what
\* addCirclePost(p) put in: every other post held before the rollback is held
\* after it, also a post with the id of p, and of p itself one copy goes.
C32_RollbackRemovesOnlyAdded ==
  [][\A k \in DOMAIN calls :
       (Rejected(k) /\ calls[k].kind = "createPost") =>
         \A q \in Range(circlePosts) :
           Count(circlePosts', q) >=
             Count(circlePosts, q) - (IF q = calls[k].args[1] THEN 1 ELSE 0)]_vars


\* ---------------------------------------------------------------- C33
\* C33: what chooseHome commits belongs to the user who commits it: every
\* Person and the Tree it adds to the collections, and every Person and Tree
\* it pushes, carries the id of the user signed in at that moment, also when
\* the user changed between the upload and chooseHome.
C33_CommitCarriesCommitter ==
  [][(Handles("chooseHome") /\ user # NoUser) =>
       /\ \A p \in Range(profiles') \ Range(profiles) : p.userId = user
       /\ familyTrees'[1].userId = user
       /\ \A c \in Range(Issued) :
            /\ c.kind = "upsert" => \A p \in Range(c.args) : p.userId = user
            /\ c.kind = "createTree" => c.args[1].userId = user]_vars


\* ---------------------------------------------------------------- C34
\* C34: clearAll clears the local cache only: it empties the persons, trees
\* and posts, resets activeProfileId, selectedTreeId and treeViewId to null,
\* and issues no remote write or delete.
C34_ClearAllLocalOnly ==
  [][Applies("clearAll") =>
       /\ profiles' = <<>> /\ familyTrees' = <<>> /\ circlePosts' = <<>>
       /\ activeProfileId' = NoId /\ selectedTreeId' = NoId /\ treeViewId' = NoId
       /\ Issued = <<>>
       /\ UNCHANGED remote]_vars

\* clearAll ran on a cache whose persons are stored: the rows are still there
C34_Witness ==
  /\ last.op = "clearAll"
  /\ profiles = <<>>
  /\ DOMAIN remoteProfiles # {}
  /\ \A k \in DOMAIN calls : calls[k].kind # "deleteProfile"


\* ---------------------------------------------------------------- C35
\* the column values updateTree sends for a patch
update(patch) ==
  [home_person_id |-> patch.homePersonId,
   member_ids |-> patch.memberIds,
   name |-> patch.name]

\* C35: for a tree whose homePersonId is unset, both the create and the
\* update sent to the store carry a null home_person_id, never the empty
\* string.
C35_UnsetHomeSentAsNull ==
  \A k \in DOMAIN calls :
    /\ (calls[k].kind = "createTree" /\ calls[k].args[1].homePersonId = NoHome)
         => treeToInsert(calls[k].args[1]).home = SqlNull
    /\ (calls[k].kind = "updateTree" /\ calls[k].args[1].homePersonId = NoHome)
         => update(calls[k].args[1]).home_person_id = SqlNull


\* ---------------------------------------------------------------- C36
\* what call u of uploadMedia has left in the store
FileKept(u) ==
  /\ uploads[u].storagePath \in DOMAIN bucket
  /\ bucket[uploads[u].storagePath].id = u

RowKept(u) == uploads[u].row # <<>> /\ uploads[u].row[1] \in Range(mediaRows)

\* C36: whenever uploadMedia has rejected, neither the file it uploaded nor
\* a metadata row of it is left in the store.
C36_UploadAllOrNothing ==
  \A u \in DOMAIN uploads :
    uploads[u].outcome = "rejected" => ~FileKept(u) /\ ~RowKept(u)

\* the second half of the claim: a rejection for a failed insert comes only
\* after the removal of the uploaded path was sent
RemovalBeforeInsertError ==
  [][\A u \in DOMAIN uploads :
       (uploads[u].outcome = "pending" /\ uploads'[u].outcome = "rejected"
          /\ uploads'[u].err = "uploadMedia insert")
         => uploads[u].pc = "remove"]_vars


\* ---------------------------------------------------------------- C37
\* a body with a known action and a non-blank prompt of at most 8000 characters
WellFormed(body) ==
  /\ body.typeof = "object"
  /\ body.action.typeof = "string"
  /\ body.action.value \in {"summary", "research", "portrait"}
  /\ body.prompt.typeof = "string"
  /\ body.prompt.text > 0
  /\ body.prompt.pad + body.prompt.text <= 8000

\* C37: every request gets one response; Gemini is called only for a POST
\* with the key configured and a well-formed body, otherwise the answer is
\* 405, 500 or 400, checked in that order, without a call to Gemini; a
\* failure of Gemini is answered with 502.
C37_HandlerAnswersOnce ==
  [][/\ \A r \in DOMAIN requests' :
          /\ Len(requests'[r].responses) <= 1
          /\ requests'[r].pc = "done" => Len(requests'[r].responses) = 1
     /\ \A r \in DOMAIN requests' \ DOMAIN requests :
          LET rq == requests'[r]
          IN  IF rq.method # "POST" THEN rq.responses = <<405>> /\ rq.gemini = 0
              ELSE IF apiKey = NoKey THEN rq.responses = <<500>> /\ rq.gemini = 0
              ELSE IF ~WellFormed(rq.body) THEN rq.responses = <<400>> /\ rq.gemini = 0
              ELSE rq.responses = <<>> /\ rq.gemini = 1
     /\ \A r \in DOMAIN requests :
          /\ requests'[r].gemini = requests[r].gemini
          /\ (last'.op = "GeminiFail" /\ last'.k = r /\ requests'[r] # requests[r])
               => requests'[r].responses = <<502>>]_vars

\* a prompt that is too long only with its padding was refused, and a
\* request that reached Gemini was answered with 502 after its failure
C37_Witness ==
  /\ Len(requests) = 2
  /\ requests[1].method = "POST" /\ requests[1].body.typeof = "object"
  /\ requests[1].body.action.typeof = "string" /\ requests[1].body.action.value = "summary"
  /\ requests[1].body.prompt = Prompt(1, MAX_PROMPT_LENGTH)
  /\ requests[1].responses = <<400>>
  /\ requests[2].gemini = 1 /\ requests[2].responses = <<502>>
  /\ last.op = "GeminiFail"


\* ---------------------------------------------------------------- C38
\* C38: once the getSession call of the mount effect has resolved, with a
\* session or without one, loading eventually becomes false.
C38_LoadingSettles == (restore \in {"session", "none"}) ~> (loading = FALSE)

\* the half that holds: restored with a session, loading is false
LoadingClearedWithSession == restore = "session" => loading = FALSE

====
